---------------------------- MODULE Spec2Model ----------------------------
(***************************************************************************)
(* A model of the ruscompile pipeline (src/src/lib.rs, Compiler::compile): *)
(* the semantic analyzer (src/src/semantic.rs) and the code generator      *)
(* (src/src/codegen.rs) walking the statements of one program.             *)
(*                                                                         *)
(* The program is not fixed in advance: each action draws the next         *)
(* statement of the program from a small set and hands it to the           *)
(* analyzer's and the generator's handler for that kind of statement, in   *)
(* source order.  analyze and generate both visit program.statements from  *)
(* first to last and share no state, so handing each statement to both as  *)
(* it is drawn yields the states the two objects have after the same       *)
(* prefix of the program.                                                  *)
(***************************************************************************)
EXTENDS Integers, Sequences, FiniteSets, TLC

(***************************************************************************)
(* Bounds of the model.                                                    *)
(***************************************************************************)
MaxStmts == 3
MaxDepth == 2

(***************************************************************************)
(* ast.rs: Type.  A primitive has no parameters and no return type; the    *)
(* boxed return type of a function type is a sequence of length one.       *)
(***************************************************************************)
Prim(t) == [tag |-> t, parameters |-> <<>>, return_type |-> <<>>]

FunctionType(ps, r) == [tag |-> "Function", parameters |-> ps, return_type |-> <<r>>]

TInt == Prim("Int")
TFloat == Prim("Float")
TBool == Prim("Bool")
TString == Prim("String")
TVoid == Prim("Void")

(***************************************************************************)
(* ast.rs: Expression.  One record shape for the six variants:             *)
(*   Literal    tag = Integer | Float  | Boolean | String, val / name       *)
(*   Identifier name                                                       *)
(*   Binary     tag = operator, args = <<left, right>>                     *)
(*   Unary      tag = operator, args = <<operand>>                         *)
(*   Call       name = function, args = arguments                          *)
(*   Assignment name = target, args = <<value>>                            *)
(* A Float literal carries its value in tenths (25 is 2.5).                *)
(***************************************************************************)
IntLit(n) == [kind |-> "Literal", tag |-> "Integer", name |-> "", val |-> n, args |-> <<>>]
FloatLit(tenths) == [kind |-> "Literal", tag |-> "Float", name |-> "", val |-> tenths, args |-> <<>>]
BoolLit(b) == [kind |-> "Literal", tag |-> "Boolean", name |-> "", val |-> b, args |-> <<>>]
StrLit(s) == [kind |-> "Literal", tag |-> "String", name |-> s, val |-> 0, args |-> <<>>]
Ident(n) == [kind |-> "Identifier", tag |-> "", name |-> n, val |-> 0, args |-> <<>>]
Binary(op, l, r) == [kind |-> "Binary", tag |-> op, name |-> "", val |-> 0, args |-> <<l, r>>]
Unary(op, e) == [kind |-> "Unary", tag |-> op, name |-> "", val |-> 0, args |-> <<e>>]
Call(f, as) == [kind |-> "Call", tag |-> "", name |-> f, val |-> 0, args |-> as]
Assign(t, v) == [kind |-> "Assignment", tag |-> "", name |-> t, val |-> 0, args |-> <<v>>]

(***************************************************************************)
(* error.rs: CompilerError / CompilerResult.  line and column are the      *)
(* Option<usize> fields: <<>> is None, <<n>> is Some(n).  type is the      *)
(* Ok value of a CompilerResult<Type>.                                     *)
(***************************************************************************)
Ok == [kind |-> "Ok", line |-> <<>>, column |-> <<>>, type |-> <<>>]

OkType(t) == [kind |-> "Ok", line |-> <<>>, column |-> <<>>, type |-> <<t>>]

semantic == [kind |-> "SemanticError", line |-> <<>>, column |-> <<>>, type |-> <<>>]

semantic_with_location(loc) ==
    [kind |-> "SemanticError", line |-> <<loc.line>>, column |-> <<loc.column>>, type |-> <<>>]

type_error_with_location(loc) ==
    [kind |-> "TypeError", line |-> <<loc.line>>, column |-> <<loc.column>>, type |-> <<>>]

codegen_error == [kind |-> "CodeGenError", line |-> <<>>, column |-> <<>>, type |-> <<>>]

Running == [kind |-> "Running", line |-> <<>>, column |-> <<>>, type |-> <<>>]

(***************************************************************************)
(* semantic.rs: Symbol and Scope.  symbols is the HashMap keyed by name    *)
(* (a set of Symbol records, at most one per name); parent is the          *)
(* Option<Box<Scope>>.                                                     *)
(***************************************************************************)
VarSymbol(n, t) ==
    [name |-> n, symbol_type |-> t, is_function |-> FALSE,
     parameters |-> <<>>, return_type |-> <<>>]

FuncSymbol(n, ps, r) ==
    [name |-> n, symbol_type |-> FunctionType(ps, r), is_function |-> TRUE,
     parameters |-> ps, return_type |-> <<r>>]

ScopeNew == [symbols |-> {}, parent |-> <<>>]

with_parent(parent) == [symbols |-> {}, parent |-> <<parent>>]

contains_key(symbols, n) == \E s \in symbols : s.name = n

define(scope, symbol) ==
    IF contains_key(scope.symbols, symbol.name)
    THEN [scope |-> scope, result |-> semantic]
    ELSE [scope |-> [scope EXCEPT !.symbols = @ \cup {symbol}], result |-> Ok]

RECURSIVE resolve(_, _)
resolve(scope, n) ==
    IF contains_key(scope.symbols, n)
    THEN <<CHOOSE s \in scope.symbols : s.name = n>>
    ELSE IF scope.parent # <<>> THEN resolve(scope.parent[1], n)
    ELSE <<>>

(***************************************************************************)
(* semantic.rs: types_compatible and literal_type.                         *)
(***************************************************************************)
\* types_compatible with the widening allowed in both directions
RECURSIVE types_compatible_narrowing(_, _)
types_compatible_narrowing(expected, actual) ==
    CASE expected.tag \in {"Int", "Float"} /\ actual.tag \in {"Int", "Float"} -> TRUE
      [] expected.tag \in {"Bool", "String", "Void"} /\ actual.tag = expected.tag -> TRUE
      [] expected.tag = "Function" /\ actual.tag = "Function" ->
            /\ Len(expected.parameters) = Len(actual.parameters)
            /\ \A i \in 1..Len(expected.parameters) :
                  types_compatible_narrowing(expected.parameters[i], actual.parameters[i])
            /\ types_compatible_narrowing(expected.return_type[1], actual.return_type[1])
      [] OTHER -> FALSE

RECURSIVE types_compatible(_, _)
types_compatible(expected, actual) ==
    CASE expected.tag = "Int" /\ actual.tag = "Int" -> TRUE
      [] expected.tag = "Float" /\ actual.tag = "Float" -> TRUE
      [] expected.tag = "Float" /\ actual.tag = "Int" -> TRUE
      [] expected.tag = "Bool" /\ actual.tag = "Bool" -> TRUE
      [] expected.tag = "String" /\ actual.tag = "String" -> TRUE
      [] expected.tag = "Void" /\ actual.tag = "Void" -> TRUE
      [] expected.tag = "Function" /\ actual.tag = "Function" ->
            IF Len(expected.parameters) # Len(actual.parameters) THEN FALSE
            ELSE IF \E i \in 1..Len(expected.parameters) :
                        ~types_compatible(expected.parameters[i], actual.parameters[i])
                 THEN FALSE
                 ELSE types_compatible(expected.return_type[1], actual.return_type[1])
      [] OTHER -> FALSE

literal_type(literal) ==
    CASE literal.tag = "Integer" -> TInt
      [] literal.tag = "Float" -> TFloat
      [] literal.tag = "Boolean" -> TBool
      [] literal.tag = "String" -> TString

IsNumeric(t) == t = TInt \/ t = TFloat

(***************************************************************************)
(* semantic.rs: analyze_expression and the handlers it dispatches to.      *)
(* They read the current scope and return a CompilerResult<Type>.  Every   *)
(* node of a statement carries the statement's Location loc.               *)
(***************************************************************************)
RECURSIVE analyze_expression(_, _, _)
RECURSIVE analyze_arguments(_, _, _, _, _)

\* analyze_binary_expression with the logical operators testing only the
\* right operand
analyze_binary_expression_right_only(scope, binary, loc) ==
    LET left == analyze_expression(scope, binary.args[1], loc) IN
    IF left.kind # "Ok" THEN left
    ELSE
    LET right == analyze_expression(scope, binary.args[2], loc) IN
    IF right.kind # "Ok" THEN right
    ELSE
    LET left_type == left.type[1]
        right_type == right.type[1]
        op == binary.tag
    IN  CASE op \in {"+", "-", "*", "/"} ->
                IF left_type = TInt /\ right_type = TInt THEN OkType(TInt)
                ELSE IF IsNumeric(left_type) /\ IsNumeric(right_type) THEN OkType(TFloat)
                ELSE type_error_with_location(loc)
          [] op \in {"==", "!="} ->
                IF types_compatible(left_type, right_type) THEN OkType(TBool)
                ELSE type_error_with_location(loc)
          [] op \in {"<", "<=", ">", ">="} ->
                IF IsNumeric(left_type) /\ IsNumeric(right_type) THEN OkType(TBool)
                ELSE type_error_with_location(loc)
          [] op \in {"&&", "||"} ->
                IF right_type = TBool THEN OkType(TBool)
                ELSE type_error_with_location(loc)
          [] op = "%" ->
                IF left_type = TInt /\ right_type = TInt THEN OkType(TInt)
                ELSE type_error_with_location(loc)

analyze_binary_expression(scope, binary, loc) ==
    LET left == analyze_expression(scope, binary.args[1], loc) IN
    IF left.kind # "Ok" THEN left
    ELSE
    LET right == analyze_expression(scope, binary.args[2], loc) IN
    IF right.kind # "Ok" THEN right
    ELSE
    LET left_type == left.type[1]
        right_type == right.type[1]
        op == binary.tag
    IN  CASE op \in {"+", "-", "*", "/"} ->
                IF left_type = TInt /\ right_type = TInt THEN OkType(TInt)
                ELSE IF IsNumeric(left_type) /\ IsNumeric(right_type) THEN OkType(TFloat)
                ELSE type_error_with_location(loc)
          [] op \in {"==", "!="} ->
                IF types_compatible(left_type, right_type) THEN OkType(TBool)
                ELSE type_error_with_location(loc)
          [] op \in {"<", "<=", ">", ">="} ->
                IF IsNumeric(left_type) /\ IsNumeric(right_type) THEN OkType(TBool)
                ELSE type_error_with_location(loc)
          [] op \in {"&&", "||"} ->
                IF left_type = TBool /\ right_type = TBool THEN OkType(TBool)
                ELSE type_error_with_location(loc)
          [] op = "%" ->
                IF left_type = TInt /\ right_type = TInt THEN OkType(TInt)
                ELSE type_error_with_location(loc)

analyze_unary_expression(scope, unary, loc) ==
    LET operand == analyze_expression(scope, unary.args[1], loc) IN
    IF operand.kind # "Ok" THEN operand
    ELSE
    LET operand_type == operand.type[1] IN
    CASE unary.tag = "Minus" ->
            IF IsNumeric(operand_type) THEN OkType(operand_type)
            ELSE type_error_with_location(loc)
      [] unary.tag = "Not" ->
            IF operand_type = TBool THEN OkType(TBool)
            ELSE type_error_with_location(loc)
      [] unary.tag = "Negate" ->
            IF operand_type = TInt THEN OkType(TInt)
            ELSE type_error_with_location(loc)

\* The loop over call.arguments zipped with the parameter types, from
\* position i on: the first argument that fails, or Ok.
analyze_arguments(scope, arguments, parameters, i, loc) ==
    IF i > Len(arguments) THEN Ok
    ELSE LET arg == analyze_expression(scope, arguments[i], loc) IN
         IF arg.kind # "Ok" THEN arg
         ELSE IF ~types_compatible(parameters[i], arg.type[1])
              THEN type_error_with_location(loc)
              ELSE analyze_arguments(scope, arguments, parameters, i + 1, loc)

\* analyze_call_expression without the test that the callee is a function
analyze_call_expression_any_symbol(scope, call, loc) ==
    LET symbol == resolve(scope, call.name) IN
    IF symbol = <<>> THEN semantic_with_location(loc)
    ELSE IF Len(call.args) # Len(symbol[1].parameters) THEN semantic_with_location(loc)
    ELSE LET args == analyze_arguments(scope, call.args, symbol[1].parameters, 1, loc) IN
         IF args.kind # "Ok" THEN args
         ELSE OkType(IF symbol[1].return_type = <<>> THEN TVoid
                     ELSE symbol[1].return_type[1])

analyze_call_expression(scope, call, loc) ==
    LET symbol == resolve(scope, call.name) IN
    IF symbol = <<>> THEN semantic_with_location(loc)
    ELSE IF ~symbol[1].is_function THEN semantic_with_location(loc)
    ELSE IF Len(call.args) # Len(symbol[1].parameters) THEN semantic_with_location(loc)
    ELSE LET args == analyze_arguments(scope, call.args, symbol[1].parameters, 1, loc) IN
         IF args.kind # "Ok" THEN args
         ELSE OkType(IF symbol[1].return_type = <<>> THEN TVoid
                     ELSE symbol[1].return_type[1])

analyze_assignment_expression(scope, assign, loc) ==
    LET symbol == resolve(scope, assign.name) IN
    IF symbol = <<>> THEN semantic_with_location(loc)
    ELSE
    LET symbol_type == symbol[1].symbol_type
        value == analyze_expression(scope, assign.args[1], loc)
    IN  IF value.kind # "Ok" THEN value
        ELSE IF ~types_compatible(symbol_type, value.type[1])
             THEN type_error_with_location(loc)
             ELSE OkType(symbol_type)

analyze_expression(scope, expression, loc) ==
    CASE expression.kind = "Literal" -> OkType(literal_type(expression))
      [] expression.kind = "Identifier" ->
            LET symbol == resolve(scope, expression.name) IN
            IF symbol = <<>> THEN semantic_with_location(loc)
            ELSE OkType(symbol[1].symbol_type)
      [] expression.kind = "Binary" -> analyze_binary_expression(scope, expression, loc)
      [] expression.kind = "Unary" -> analyze_unary_expression(scope, expression, loc)
      [] expression.kind = "Call" -> analyze_call_expression(scope, expression, loc)
      [] expression.kind = "Assignment" -> analyze_assignment_expression(scope, expression, loc)


(***************************************************************************)
(* semantic.rs: the statement handlers.  a is the SemanticAnalyzer         *)
(* (current_scope, function_return_type); each handler returns the         *)
(* analyzer it leaves behind and its CompilerResult.                       *)
(***************************************************************************)
SemanticAnalyzerNew == [current_scope |-> ScopeNew, function_return_type |-> <<>>]

Builtins ==
    {FuncSymbol("print", <<TString>>, TVoid),
     FuncSymbol("println", <<TString>>, TVoid),
     FuncSymbol("println_int", <<TInt>>, TVoid),
     FuncSymbol("println_float", <<TFloat>>, TVoid),
     FuncSymbol("println_bool", <<TBool>>, TVoid)}

BuiltinOrder == <<"print", "println", "println_int", "println_float", "println_bool">>

\* define each symbol of the sequence in turn, stopping at the first error
RECURSIVE define_all(_, _, _)
define_all(scope, symbols, i) ==
    IF i > Len(symbols) THEN [scope |-> scope, result |-> Ok]
    ELSE LET d == define(scope, symbols[i]) IN
         IF d.result.kind # "Ok" THEN d
         ELSE define_all(d.scope, symbols, i + 1)

define_builtins(a) ==
    LET d == define_all(a.current_scope,
                        [i \in 1..Len(BuiltinOrder) |->
                            CHOOSE b \in Builtins : b.name = BuiltinOrder[i]], 1)
    IN  [analyzer |-> [a EXCEPT !.current_scope = d.scope], result |-> d.result]

\* analyze_declaration reporting a redeclaration as a type error
analyze_declaration_type_error(a, decl, loc) ==
    IF resolve(a.current_scope, decl.name) # <<>>
    THEN [analyzer |-> a, result |-> type_error_with_location(loc)]
    ELSE
    LET init == IF decl.initializer = <<>> THEN Ok
                ELSE analyze_expression(a.current_scope, decl.initializer[1], loc)
    IN  IF init.kind # "Ok" THEN [analyzer |-> a, result |-> init]
        ELSE IF decl.initializer # <<>> /\ ~types_compatible(decl.var_type, init.type[1])
        THEN [analyzer |-> a, result |-> type_error_with_location(loc)]
        ELSE LET d == define(a.current_scope, VarSymbol(decl.name, decl.var_type)) IN
             [analyzer |-> [a EXCEPT !.current_scope = d.scope], result |-> d.result]

analyze_declaration(a, decl, loc) ==
    IF resolve(a.current_scope, decl.name) # <<>>
    THEN [analyzer |-> a, result |-> semantic_with_location(loc)]
    ELSE
    LET init == IF decl.initializer = <<>> THEN Ok
                ELSE analyze_expression(a.current_scope, decl.initializer[1], loc)
    IN  IF init.kind # "Ok" THEN [analyzer |-> a, result |-> init]
        ELSE IF decl.initializer # <<>> /\ ~types_compatible(decl.var_type, init.type[1])
        THEN [analyzer |-> a, result |-> type_error_with_location(loc)]
        ELSE LET d == define(a.current_scope, VarSymbol(decl.name, decl.var_type)) IN
             [analyzer |-> [a EXCEPT !.current_scope = d.scope], result |-> d.result]

analyze_assignment(a, assign, loc) ==
    LET symbol == resolve(a.current_scope, assign.name) IN
    IF symbol = <<>> THEN [analyzer |-> a, result |-> semantic_with_location(loc)]
    ELSE IF symbol[1].is_function
    THEN [analyzer |-> a, result |-> semantic_with_location(loc)]
    ELSE
    LET value == analyze_expression(a.current_scope, assign.value[1], loc) IN
    IF value.kind # "Ok" THEN [analyzer |-> a, result |-> value]
    ELSE IF ~types_compatible(symbol[1].symbol_type, value.type[1])
    THEN [analyzer |-> a, result |-> type_error_with_location(loc)]
    ELSE [analyzer |-> a, result |-> Ok]

\* analyze_if_statement and analyze_while_statement up to the analysis of
\* the branch or body, which follows as statements of its own
analyze_condition(a, condition, loc) ==
    LET condition_type == analyze_expression(a.current_scope, condition, loc) IN
    IF condition_type.kind # "Ok" THEN [analyzer |-> a, result |-> condition_type]
    ELSE IF condition_type.type[1] # TBool
    THEN [analyzer |-> a, result |-> type_error_with_location(loc)]
    ELSE [analyzer |-> a, result |-> Ok]

analyze_if_statement(a, condition, loc) == analyze_condition(a, condition, loc)

analyze_while_statement(a, condition, loc) == analyze_condition(a, condition, loc)

analyze_return_statement(a, value, loc) ==
    IF a.function_return_type = <<>>
    THEN [analyzer |-> a, result |-> semantic_with_location(loc)]
    ELSE
    LET expected_return_type == a.function_return_type[1] IN
    IF value # <<>>
    THEN LET value_type == analyze_expression(a.current_scope, value[1], loc) IN
         IF value_type.kind # "Ok" THEN [analyzer |-> a, result |-> value_type]
         ELSE IF ~types_compatible(expected_return_type, value_type.type[1])
         THEN [analyzer |-> a, result |-> type_error_with_location(loc)]
         ELSE [analyzer |-> a, result |-> Ok]
    ELSE IF expected_return_type # TVoid
         THEN [analyzer |-> a, result |-> type_error_with_location(loc)]
         ELSE [analyzer |-> a, result |-> Ok]

\* analyze_block_statement up to its loop: the block's scope replaces the
\* current one and the old one is kept in the call's frame (saved)
analyze_block_statement_enter(a) ==
    [analyzer |-> [a EXCEPT !.current_scope = with_parent(a.current_scope)],
     saved |-> <<[kind |-> "block", old_scope |-> a.current_scope,
                  old_return_type |-> <<>>]>>,
     result |-> Ok]

\* analyze_block_statement without the restoration of the old scope
analyze_block_statement_exit_no_restore(a, frame) == a

\* analyze_block_statement after its loop
analyze_block_statement_exit(a, frame) == [a EXCEPT !.current_scope = frame.old_scope]

\* analyze_function_declaration up to the loop of its body's block
analyze_function_declaration_enter(a, func, loc) ==
    IF resolve(a.current_scope, func.name) # <<>>
    THEN [analyzer |-> a, saved |-> <<>>, result |-> semantic_with_location(loc)]
    ELSE
    LET param_types == [i \in 1..Len(func.parameters) |-> func.parameters[i].param_type]
        d == define(a.current_scope, FuncSymbol(func.name, param_types, func.return_type))
    IN  IF d.result.kind # "Ok"
        THEN [analyzer |-> [a EXCEPT !.current_scope = d.scope], saved |-> <<>>,
              result |-> d.result]
        ELSE
        LET prs == define_all(with_parent(d.scope),
                             [i \in 1..Len(func.parameters) |->
                                 VarSymbol(func.parameters[i].name,
                                           func.parameters[i].param_type)], 1)
        IN  IF prs.result.kind # "Ok"
            THEN [analyzer |-> [a EXCEPT !.current_scope = d.scope], saved |-> <<>>,
                  result |-> prs.result]
            ELSE
            LET inner == [current_scope |-> prs.scope,
                          function_return_type |-> <<func.return_type>>]
                body == analyze_block_statement_enter(inner)
            IN  [analyzer |-> body.analyzer,
                 saved |-> <<[kind |-> "function", old_scope |-> d.scope,
                              old_return_type |-> a.function_return_type]>>
                           \o body.saved,
                 result |-> Ok]

\* analyze_function_declaration without the restoration of the old return type
analyze_function_declaration_exit_keep_type(a, frame) ==
    [current_scope |-> frame.old_scope, function_return_type |-> a.function_return_type]

\* analyze_function_declaration after its body's block has returned
analyze_function_declaration_exit(a, frame) ==
    [current_scope |-> frame.old_scope, function_return_type |-> frame.old_return_type]

(***************************************************************************)
(* codegen.rs: CodeGenerator.  g is the generator (label_counter,          *)
(* string_literals, current_function, local_variables, stack_offset).  The *)
(* two HashMaps are sets of key/value entries, at most one per key.  The   *)
(* assembly text is a sequence of lines, each without its final newline.   *)
(***************************************************************************)
LocalSlots == 10

\* a generator that has generated a program with two string literals before
CodeGeneratorReused ==
    [label_counter |-> 0,
     string_literals |-> {[key |-> "a", value |-> "str_0"], [key |-> "b", value |-> "str_1"]},
     current_function |-> <<>>, local_variables |-> {}, stack_offset |-> 0]

CodeGeneratorNew ==
    [label_counter |-> 0, string_literals |-> {}, current_function |-> <<>>,
     local_variables |-> {}, stack_offset |-> 0]

\* HashMap::insert: the entry replaces an entry of the same key
insert(map, k, v) == {e \in map : e.key # k} \cup {[key |-> k, value |-> v]}

\* HashMap::get
get(map, k) ==
    IF \E e \in map : e.key = k THEN <<(CHOOSE e \in map : e.key = k).value>> ELSE <<>>

\* generate_label without the increment of label_counter
generate_label_no_increment(g, prefix) ==
    [codegen |-> g, label |-> prefix \o "_" \o ToString(g.label_counter + 1)]

generate_label(g, prefix) ==
    [codegen |-> [g EXCEPT !.label_counter = @ + 1],
     label |-> prefix \o "_" \o ToString(g.label_counter + 1)]

add_string_literal(g, string) ==
    LET label == "str_" \o ToString(Cardinality(g.string_literals)) IN
    [codegen |-> [g EXCEPT !.string_literals = insert(@, string, label)],
     label |-> label]

GenOk(g, lines) == [result |-> Ok, assembly |-> lines, codegen |-> g]

GenErr(g) == [result |-> codegen_error, assembly |-> <<>>, codegen |-> g]

generate_literal(g, literal) ==
    CASE literal.tag = "Integer" -> GenOk(g, <<"    push " \o ToString(literal.val)>>)
      [] literal.tag = "Float" -> GenOk(g, <<"    push " \o ToString(literal.val \div 10)>>)
      [] literal.tag = "Boolean" -> GenOk(g, <<"    push " \o ToString(literal.val)>>)
      [] literal.tag = "String" ->
            LET l == add_string_literal(g, literal.name) IN
            GenOk(l.codegen, <<"    push " \o l.label>>)

generate_identifier(g, name) ==
    LET offset == get(g.local_variables, name) IN
    IF offset = <<>> THEN GenErr(g)
    ELSE GenOk(g, <<"    mov rax, [rbp" \o ToString(offset[1]) \o "]", "    push rax">>)

BinaryInstructions(op) ==
    CASE op = "+" -> <<"    add rax, rbx">>
      [] op = "-" -> <<"    sub rax, rbx">>
      [] op = "*" -> <<"    imul rax, rbx">>
      [] op = "/" -> <<"    cqo", "    idiv rbx">>
      [] op = "%" -> <<"    cqo", "    idiv rbx", "    mov rax, rdx">>
      [] op = "==" -> <<"    cmp rax, rbx", "    sete al", "    movzx rax, al">>
      [] op = "!=" -> <<"    cmp rax, rbx", "    setne al", "    movzx rax, al">>
      [] op = "<" -> <<"    cmp rax, rbx", "    setl al", "    movzx rax, al">>
      [] op = "<=" -> <<"    cmp rax, rbx", "    setle al", "    movzx rax, al">>
      [] op = ">" -> <<"    cmp rax, rbx", "    setg al", "    movzx rax, al">>
      [] op = ">=" -> <<"    cmp rax, rbx", "    setge al", "    movzx rax, al">>
      [] op = "&&" -> <<"    and rax, rbx">>
      [] op = "||" -> <<"    or rax, rbx">>

UnaryInstructions(op) ==
    CASE op = "Minus" -> <<"    neg rax">>
      [] op = "Not" -> <<"    cmp rax, 0", "    sete al", "    movzx rax, al">>
      [] op = "Negate" -> <<"    not rax">>

RECURSIVE generate_expression(_, _)
RECURSIVE generate_arguments(_, _, _)

generate_binary_expression(g, binary) ==
    LET right == generate_expression(g, binary.args[2]) IN
    IF right.result.kind # "Ok" THEN right
    ELSE
    LET left == generate_expression(right.codegen, binary.args[1]) IN
    IF left.result.kind # "Ok" THEN left
    ELSE GenOk(left.codegen,
               right.assembly \o left.assembly \o <<"    pop rbx", "    pop rax">>
               \o BinaryInstructions(binary.tag) \o <<"    push rax">>)

generate_unary_expression(g, unary) ==
    LET operand == generate_expression(g, unary.args[1]) IN
    IF operand.result.kind # "Ok" THEN operand
    ELSE GenOk(operand.codegen,
               operand.assembly \o <<"    pop rax">> \o UnaryInstructions(unary.tag)
               \o <<"    push rax">>)

\* the loop over call.arguments in reverse, from position i down to 1
generate_arguments(g, arguments, i) ==
    IF i < 1 THEN GenOk(g, <<>>)
    ELSE LET arg == generate_expression(g, arguments[i]) IN
         IF arg.result.kind # "Ok" THEN arg
         ELSE LET rest == generate_arguments(arg.codegen, arguments, i - 1) IN
              IF rest.result.kind # "Ok" THEN rest
              ELSE GenOk(rest.codegen, arg.assembly \o rest.assembly)

\* a call whose arguments stay on the stack
generate_call_expression_no_cleanup(g, call) ==
    LET args == generate_arguments(g, call.args, Len(call.args)) IN
    IF args.result.kind # "Ok" THEN args
    ELSE GenOk(args.codegen,
               args.assembly \o <<"    call " \o call.name>> \o <<"    push rax">>)

generate_call_expression(g, call) ==
    LET args == generate_arguments(g, call.args, Len(call.args)) IN
    IF args.result.kind # "Ok" THEN args
    ELSE LET arg_count == Len(call.args) IN
         GenOk(args.codegen,
               args.assembly \o <<"    call " \o call.name>>
               \o (IF arg_count > 0
                   THEN <<"    add rsp, " \o ToString(arg_count * 8)>> ELSE <<>>)
               \o <<"    push rax">>)

generate_assignment_expression(g, assign) ==
    LET value == generate_expression(g, assign.args[1]) IN
    IF value.result.kind # "Ok" THEN value
    ELSE LET offset == get(value.codegen.local_variables, assign.name) IN
         IF offset = <<>> THEN GenErr(value.codegen)
         ELSE GenOk(value.codegen,
                    value.assembly \o <<"    pop rax",
                        "    mov [rbp" \o ToString(offset[1]) \o "], rax",
                        "    push rax">>)

generate_expression(g, expression) ==
    CASE expression.kind = "Literal" -> generate_literal(g, expression)
      [] expression.kind = "Identifier" -> generate_identifier(g, expression.name)
      [] expression.kind = "Binary" -> generate_binary_expression(g, expression)
      [] expression.kind = "Unary" -> generate_unary_expression(g, expression)
      [] expression.kind = "Call" -> generate_call_expression(g, expression)
      [] expression.kind = "Assignment" -> generate_assignment_expression(g, expression)

(***************************************************************************)
(* codegen.rs: the statement handlers.  A handler of a statement with a    *)
(* body is split where the body's statements are generated; what it keeps  *)
(* in local variables across the body is its frame (saved).                *)
(***************************************************************************)
GenFrame(kind, old_function, old_variables, old_stack_offset, first, second) ==
    [kind |-> kind, old_function |-> old_function, old_variables |-> old_variables,
     old_stack_offset |-> old_stack_offset, first_label |-> first, second_label |-> second]

\* generate_statement, the Expression arm
generate_expression_statement(g, expression) ==
    LET e == generate_expression(g, expression) IN
    IF e.result.kind # "Ok" THEN e
    ELSE GenOk(e.codegen, <<"    pop rax">>)

generate_declaration(g, decl) ==
    LET offset == g.stack_offset - 8
        g1 == [g EXCEPT !.stack_offset = offset,
                        !.local_variables = insert(@, decl.name, offset)]
    IN  IF decl.initializer = <<>> THEN GenOk(g1, <<>>)
        ELSE LET init == generate_expression(g1, decl.initializer[1]) IN
             IF init.result.kind # "Ok" THEN init
             ELSE GenOk(init.codegen,
                        init.assembly \o <<"    pop rax",
                            "    mov [rbp" \o ToString(offset) \o "], rax">>)

generate_assignment(g, assign) ==
    LET value == generate_expression(g, assign.value[1]) IN
    IF value.result.kind # "Ok" THEN value
    ELSE LET offset == get(value.codegen.local_variables, assign.name) IN
         IF offset = <<>> THEN GenErr(value.codegen)
         ELSE GenOk(value.codegen,
                    value.assembly \o <<"    pop rax",
                        "    mov [rbp" \o ToString(offset[1]) \o "], rax">>)

\* generate_if_statement up to the then branch
generate_if_statement_enter(g, condition) ==
    LET else_label == generate_label(g, "else")
        end_label == generate_label(else_label.codegen, "endif")
        cond == generate_expression(end_label.codegen, condition)
    IN  IF cond.result.kind # "Ok" THEN cond @@ [saved |-> <<>>]
        ELSE [result |-> Ok,
              assembly |-> cond.assembly \o <<"    pop rax", "    cmp rax, 0",
                                              "    je " \o else_label.label>>,
              codegen |-> cond.codegen,
              saved |-> <<GenFrame("if", <<>>, {}, 0, else_label.label, end_label.label)>>]

\* generate_if_statement between the then branch and the else branch
generate_if_statement_else(frame) == <<"    jmp " \o frame.second_label, frame.first_label \o ":">>

\* generate_if_statement after the else branch, if any
generate_if_statement_exit(frame) == <<frame.second_label \o ":">>

\* generate_while_statement up to the body
generate_while_statement_enter(g, condition) ==
    LET loop_label == generate_label(g, "while")
        end_label == generate_label(loop_label.codegen, "endwhile")
        cond == generate_expression(end_label.codegen, condition)
    IN  IF cond.result.kind # "Ok" THEN cond @@ [saved |-> <<>>]
        ELSE [result |-> Ok,
              assembly |-> <<loop_label.label \o ":">> \o cond.assembly
                           \o <<"    pop rax", "    cmp rax, 0",
                                "    je " \o end_label.label>>,
              codegen |-> cond.codegen,
              saved |-> <<GenFrame("while", <<>>, {}, 0, loop_label.label, end_label.label)>>]

\* a loop whose body is followed by a jump to its end label
generate_while_statement_exit_to_end(frame) ==
    <<"    jmp " \o frame.second_label, frame.second_label \o ":">>

\* generate_while_statement after the body
generate_while_statement_exit(frame) == <<"    jmp " \o frame.first_label, frame.second_label \o ":">>

\* the parameter loop of generate_function, from index i (0-based) on
RECURSIVE insert_parameters(_, _, _)
insert_parameters(variables, parameters, i) ==
    IF i >= Len(parameters) THEN variables
    ELSE insert_parameters(insert(variables, parameters[i + 1].name, -(i + 1) * 8),
                           parameters, i + 1)

\* generate_function up to its body
generate_function_enter(g, func) ==
    LET local_size == 8 * LocalSlots IN
    [result |-> Ok,
     assembly |-> <<func.name \o ":", "    push rbp", "    mov rbp, rsp",
                    "    sub rsp, " \o ToString(local_size)>>,
     codegen |-> [g EXCEPT !.current_function = <<func.name>>,
                           !.stack_offset = 0,
                           !.local_variables = insert_parameters({}, func.parameters, 0)],
     saved |-> <<GenFrame("function", g.current_function, g.local_variables,
                          g.stack_offset, "", "")>>]

\* generate_function after its body
generate_function_exit(g, frame) ==
    GenOk([g EXCEPT !.current_function = frame.old_function,
                    !.local_variables = frame.old_variables,
                    !.stack_offset = frame.old_stack_offset],
          <<"    mov rsp, rbp", "    pop rbp", "    ret", "">>)

generate_return_statement(g, value) ==
    LET v == IF value = <<>> THEN GenOk(g, <<>>)
             ELSE generate_expression(g, value[1])
    IN  IF v.result.kind # "Ok" THEN v
        ELSE GenOk(v.codegen,
                   v.assembly \o (IF value = <<>> THEN <<>> ELSE <<"    pop rax">>)
                   \o <<"    mov rsp, rbp", "    pop rbp", "    ret">>)

\* the orders in which a HashMap may be iterated
Orderings(map) ==
    {o \in [1..Cardinality(map) -> map] :
        \A i, j \in 1..Cardinality(map) : i # j => o[i] # o[j]}

\* generate up to the loop over the statements, the data section listing
\* string_literals in the order `entries`
generate_header(entries) ==
    <<"section .data">>
    \o [i \in 1..Len(entries) |->
           entries[i].value \o ": db \"" \o entries[i].key \o "\", 0"]
    \o <<"", "section .text", "global _start", "">>

\* generate after the loop over the statements
generate_footer(g) ==
    IF g.current_function = <<>>
    THEN <<"", "_start:", "    call main", "    mov rax, 60", "    xor rdi, rdi",
           "    syscall">>
    ELSE <<>>

(***************************************************************************)
(* lexer.rs: Lexer::tokenize.  The source is a sequence of bytes, each a   *)
(* one-character string; positions are byte offsets from 0 as in the code. *)
(* lex_at is the Logos automaton the Token enum derives, for the patterns  *)
(* whose characters are drawn here (blanks, line comments, integers,       *)
(* identifiers and keywords, booleans, operators and delimiters): the      *)
(* longest match wins and a keyword wins over an identifier of its length. *)
(***************************************************************************)
Digits == {"0", "1", "2", "3", "4", "5", "6", "7", "8", "9"}

Letters ==
    {"a", "b", "c", "d", "e", "f", "g", "h", "i", "j", "k", "l", "m", "n", "o", "p", "q",
     "r", "s", "t", "u", "v", "w", "x", "y", "z", "_"}

Blanks == {" ", "\t", "\n", "\f"}

DigitValue(c) ==
    CASE c = "0" -> 0 [] c = "1" -> 1 [] c = "2" -> 2 [] c = "3" -> 3 [] c = "4" -> 4
      [] c = "5" -> 5 [] c = "6" -> 6 [] c = "7" -> 7 [] c = "8" -> 8 [] c = "9" -> 9

\* the tokens written with a fixed text
Keywords ==
    {<<"if", "If">>, <<"else", "Else">>, <<"while", "While">>, <<"for", "For">>,
     <<"return", "Return">>, <<"var", "Var">>, <<"func", "Func">>, <<"int", "Int">>,
     <<"float", "FloatType">>, <<"bool", "Bool">>, <<"string", "StringType">>,
     <<"void", "Void">>, <<"true", "Boolean">>, <<"false", "Boolean">>}

Symbols1 ==
    {<<"+", "Plus">>, <<"-", "Minus">>, <<"*", "Star">>, <<"/", "Slash">>,
     <<"%", "Percent">>, <<"<", "LessThan">>, <<">", "GreaterThan">>, <<"!", "Not">>,
     <<"=", "Assign">>, <<"(", "LeftParen">>, <<")", "RightParen">>,
     <<"{", "LeftBrace">>, <<"}", "RightBrace">>, <<"[", "LeftBracket">>,
     <<"]", "RightBracket">>, <<";", "Semicolon">>, <<",", "Comma">>, <<":", "Colon">>}

Symbols2 ==
    {<<"==", "Equal">>, <<"!=", "NotEqual">>, <<"<=", "LessThanEqual">>,
     <<">=", "GreaterThanEqual">>, <<"&&", "And">>, <<"||", "Or">>, <<"->", "Arrow">>}

Lookup(table, text) ==
    IF \E e \in table : e[1] = text THEN <<(CHOOSE e \in table : e[1] = text)[2]>> ELSE <<>>

\* the bytes of the source from start up to end, as one string
RECURSIVE slice(_, _, _)
slice(source, start, end) ==
    IF start >= end THEN "" ELSE source[start + 1] \o slice(source, start + 1, end)

\* the end of the longest run of bytes of the set that begins at pos
RECURSIVE run(_, _, _)
run(source, pos, set) ==
    IF pos < Len(source) /\ source[pos + 1] \in set THEN run(source, pos + 1, set) ELSE pos

RECURSIVE parse_integer(_, _, _, _)
parse_integer(source, start, end, n) ==
    IF start >= end THEN n
    ELSE parse_integer(source, start + 1, end, 10 * n + DigitValue(source[start + 1]))

Token(token, name, val) == [token |-> token, name |-> name, val |-> val]

\* lexer.next() at the byte offset start < Len(source): the span's end and
\* the token, "skip" for a skipped span, "Err" for no match
lex_at(source, start) ==
    LET c == source[start + 1]
        two == IF start + 1 < Len(source) THEN c \o source[start + 2] ELSE c
    IN  CASE c \in Blanks -> [end |-> run(source, start, Blanks), token |-> Token("skip", "", 0)]
          [] two = "//" ->
                [end |-> run(source, start, (Digits \cup Letters \cup Blanks
                                             \cup {e[1] : e \in Symbols1} \cup {"&", "|"})
                                            \ {"\n"}),
                 token |-> Token("skip", "", 0)]
          [] c \in Digits ->
                LET end == run(source, start, Digits) IN
                [end |-> end, token |-> Token("Integer", "", parse_integer(source, start, end, 0))]
          [] c \in Letters ->
                LET end == run(source, start, Letters \cup Digits)
                    text == slice(source, start, end)
                    keyword == Lookup(Keywords, text)
                IN  [end |-> end,
                     token |-> IF keyword = <<>> THEN Token("Identifier", text, 0)
                               ELSE IF keyword[1] = "Boolean"
                               THEN Token("Boolean", "", IF text = "true" THEN 1 ELSE 0)
                               ELSE Token(keyword[1], "", 0)]
          [] Lookup(Symbols2, two) # <<>> ->
                [end |-> start + 2, token |-> Token(Lookup(Symbols2, two)[1], "", 0)]
          [] Lookup(Symbols1, c) # <<>> ->
                [end |-> start + 1, token |-> Token(Lookup(Symbols1, c)[1], "", 0)]
          [] OTHER -> [end |-> start + 1, token |-> Token("Err", "", 0)]

\* the number of newlines among the first n bytes
RECURSIVE count_newlines(_, _)
count_newlines(source, n) ==
    IF n = 0 THEN 0
    ELSE count_newlines(source, n - 1) + (IF source[n] = "\n" THEN 1 ELSE 0)

\* before.rfind('\n') for before = source[..n]: the offset of the last newline
RECURSIVE rfind_newline(_, _)
rfind_newline(source, n) ==
    IF n = 0 THEN <<>>
    ELSE IF source[n] = "\n" THEN <<n - 1>>
    ELSE rfind_newline(source, n - 1)

\* a column counted from 0
line_column_from_zero(source, start) ==
    LET last_newline == rfind_newline(source, start) IN
    [line |-> count_newlines(source, start) + 1,
     column |-> IF last_newline # <<>> THEN start - last_newline[1] - 1 ELSE start]

\* the line and the column tokenize computes for the byte offset start
line_column(source, start) ==
    LET last_newline == rfind_newline(source, start) IN
    [line |-> count_newlines(source, start) + 1,
     column |-> IF last_newline # <<>> THEN start - last_newline[1] ELSE start + 1]

lexical(line, column) ==
    [kind |-> "LexicalError", line |-> <<line>>, column |-> <<column>>, type |-> <<>>]

TokenInfo(token, line, column, length) ==
    [token |-> token.token, name |-> token.name, val |-> token.val,
     location |-> [line |-> line, column |-> column, length |-> length]]

\* the loop of tokenize from the byte offset pos on, and the Eof it appends
RECURSIVE tokenize_from(_, _, _)
tokenize_from(source, pos, tokens) ==
    IF pos >= Len(source)
    THEN LET at == line_column(source, Len(source)) IN
         [result |-> Ok,
          tokens |-> Append(tokens, TokenInfo(Token("Eof", "", 0), at.line, at.column, 0))]
    ELSE LET next == lex_at(source, pos)
             at == line_column(source, pos)
         IN  IF next.token.token = "skip" THEN tokenize_from(source, next.end, tokens)
             ELSE IF next.token.token = "Err"
             THEN [result |-> lexical(at.line, at.column), tokens |-> <<>>]
             ELSE tokenize_from(source, next.end,
                                Append(tokens, TokenInfo(next.token, at.line, at.column,
                                                         next.end - pos)))

tokenize(source) == tokenize_from(source, 0, <<>>)

(***************************************************************************)
(* The entry block as the processor runs it.  cpu holds rax, rdi and, once *)
(* the exit syscall (rax = 60) is made, the exit status (rdi).  `call      *)
(* main` returns with main's result in rax.                                *)
(***************************************************************************)
SysExit == 60

Execute(cpu, line, main_result) ==
    CASE cpu.status # <<>> -> cpu
      [] line = "    call main" -> [cpu EXCEPT !.rax = main_result]
      [] line = "    mov rax, " \o ToString(SysExit) -> [cpu EXCEPT !.rax = SysExit]
      [] line = "    xor rdi, rdi" -> [cpu EXCEPT !.rdi = 0]
      [] line = "    syscall" ->
            IF cpu.rax = SysExit THEN [cpu EXCEPT !.status = <<cpu.rdi>>] ELSE cpu
      [] OTHER -> cpu

RECURSIVE ExecuteAll(_, _, _)
ExecuteAll(cpu, lines, main_result) ==
    IF lines = <<>> THEN cpu
    ELSE ExecuteAll(Execute(cpu, Head(lines), main_result), Tail(lines), main_result)

\* the lines of the text after its `_start:` label
EntryBlock(text) ==
    IF \E i \in 1..Len(text) : text[i] = "_start:"
    THEN LET i == CHOOSE i \in 1..Len(text) : text[i] = "_start:" IN
         SubSeq(text, i + 1, Len(text))
    ELSE <<>>

(***************************************************************************)
(* The generated text as the processor runs it: the x86-64 instructions    *)
(* that codegen.rs emits for functions and expressions.  mem maps the      *)
(* addresses that were written to their values, the stack grows downwards  *)
(* from address 0 in steps of 8; a read of an address that was never       *)
(* written yields any of the values of Garbage.  A return address is the   *)
(* index of the line after the call, 0 ends the run.                       *)
(***************************************************************************)
Garbage == {0, 1}

Immediates == 0..9

StringAddresses == [label \in {"str_0", "str_1"} |-> IF label = "str_0" THEN 100 ELSE 101]

FrameOffsets == {-8 * k : k \in 1..(LocalSlots + 2)}

Rd(m, address) == IF address \in DOMAIN m.mem THEN {m.mem[address]} ELSE Garbage

Wr(mem, address, v) ==
    [a \in DOMAIN mem \cup {address} |-> IF a = address THEN v ELSE mem[a]]

\* push: rsp moves down by 8 and the value is stored there
Pushed(m, v) == [m EXCEPT !.rsp = @ - 8, !.mem = Wr(@, m.rsp - 8, v), !.ip = @ + 1]

\* idiv: the quotient is truncated towards zero
Quotient(a, b) ==
    LET abs(n) == IF n < 0 THEN -n ELSE n
        q == abs(a) \div abs(b)
    IN  IF (a < 0) = (b < 0) THEN q ELSE -q

\* and, or on two's complement numbers of any width
RECURSIVE BitAnd(_, _)
BitAnd(a, b) ==
    IF a = 0 \/ b = 0 THEN 0
    ELSE IF a = -1 THEN b
    ELSE IF b = -1 THEN a
    ELSE (a % 2) * (b % 2) + 2 * BitAnd(a \div 2, b \div 2)

RECURSIVE BitOr(_, _)
BitOr(a, b) ==
    IF a = -1 \/ b = -1 THEN -1
    ELSE IF a = 0 THEN b
    ELSE IF b = 0 THEN a
    ELSE (IF a % 2 = 1 \/ b % 2 = 1 THEN 1 ELSE 0) + 2 * BitOr(a \div 2, b \div 2)

\* setCC al: the low byte of rax becomes the condition's bit
SetAl(m, bit) == [m EXCEPT !.rax = (@ - (@ % 256)) + (IF bit THEN 1 ELSE 0), !.ip = @ + 1]

Fault(m) == [m EXCEPT !.status = "fault"]

\* the machines after the instruction at ip
Instruction(m) ==
    LET line == m.text[m.ip]
        next == [m EXCEPT !.ip = @ + 1]
    IN
    CASE \E n \in Immediates : line = "    push " \o ToString(n) ->
            {Pushed(m, n) : n \in {n \in Immediates : line = "    push " \o ToString(n)}}
      [] \E l \in DOMAIN StringAddresses : line = "    push " \o l ->
            {Pushed(m, StringAddresses[l]) :
                l \in {l \in DOMAIN StringAddresses : line = "    push " \o l}}
      [] line = "    push rax" -> {Pushed(m, m.rax)}
      [] line = "    push rbp" -> {Pushed(m, m.rbp)}
      [] line = "    pop rax" -> {[next EXCEPT !.rax = v, !.rsp = @ + 8] : v \in Rd(m, m.rsp)}
      [] line = "    pop rbx" -> {[next EXCEPT !.rbx = v, !.rsp = @ + 8] : v \in Rd(m, m.rsp)}
      [] line = "    pop rbp" -> {[next EXCEPT !.rbp = v, !.rsp = @ + 8] : v \in Rd(m, m.rsp)}
      [] \E o \in FrameOffsets : line = "    mov rax, [rbp" \o ToString(o) \o "]" ->
            LET o == CHOOSE o \in FrameOffsets : line = "    mov rax, [rbp" \o ToString(o) \o "]"
            IN  {[next EXCEPT !.rax = v] : v \in Rd(m, m.rbp + o)}
      [] \E o \in FrameOffsets : line = "    mov [rbp" \o ToString(o) \o "], rax" ->
            LET o == CHOOSE o \in FrameOffsets : line = "    mov [rbp" \o ToString(o) \o "], rax"
            IN  {[next EXCEPT !.mem = Wr(@, m.rbp + o, m.rax)]}
      [] line = "    mov rbp, rsp" -> {[next EXCEPT !.rbp = m.rsp]}
      [] line = "    mov rsp, rbp" -> {[next EXCEPT !.rsp = m.rbp]}
      [] line = "    mov rax, rdx" -> {[next EXCEPT !.rax = m.rdx]}
      [] line = "    sub rsp, " \o ToString(8 * LocalSlots) ->
            {[next EXCEPT !.rsp = @ - 8 * LocalSlots]}
      [] \E n \in 1..3 : line = "    add rsp, " \o ToString(8 * n) ->
            {[next EXCEPT !.rsp = @ + 8 * n] :
                n \in {n \in 1..3 : line = "    add rsp, " \o ToString(8 * n)}}
      [] line = "    add rax, rbx" -> {[next EXCEPT !.rax = m.rax + m.rbx]}
      [] line = "    sub rax, rbx" -> {[next EXCEPT !.rax = m.rax - m.rbx]}
      [] line = "    imul rax, rbx" -> {[next EXCEPT !.rax = m.rax * m.rbx]}
      [] line = "    and rax, rbx" -> {[next EXCEPT !.rax = BitAnd(m.rax, m.rbx)]}
      [] line = "    or rax, rbx" -> {[next EXCEPT !.rax = BitOr(m.rax, m.rbx)]}
      [] line = "    neg rax" -> {[next EXCEPT !.rax = -m.rax]}
      [] line = "    not rax" -> {[next EXCEPT !.rax = -m.rax - 1]}
      [] line = "    cqo" -> {[next EXCEPT !.rdx = IF m.rax < 0 THEN -1 ELSE 0]}
      [] line = "    idiv rbx" ->
            IF m.rbx = 0 \/ m.rdx # (IF m.rax < 0 THEN -1 ELSE 0) THEN {Fault(m)}
            ELSE {[next EXCEPT !.rax = Quotient(m.rax, m.rbx),
                               !.rdx = m.rax - m.rbx * Quotient(m.rax, m.rbx)]}
      [] line = "    cmp rax, rbx" -> {[next EXCEPT !.flags = <<m.rax, m.rbx>>]}
      [] line = "    cmp rax, 0" -> {[next EXCEPT !.flags = <<m.rax, 0>>]}
      [] line = "    sete al" -> {SetAl(m, m.flags[1] = m.flags[2])}
      [] line = "    setne al" -> {SetAl(m, m.flags[1] # m.flags[2])}
      [] line = "    setl al" -> {SetAl(m, m.flags[1] < m.flags[2])}
      [] line = "    setle al" -> {SetAl(m, m.flags[1] <= m.flags[2])}
      [] line = "    setg al" -> {SetAl(m, m.flags[1] > m.flags[2])}
      [] line = "    setge al" -> {SetAl(m, m.flags[1] >= m.flags[2])}
      [] line = "    movzx rax, al" -> {[next EXCEPT !.rax = m.rax % 256]}
      [] \E f \in {"f", "main"} : line = "    call " \o f ->
            LET f == CHOOSE f \in {"f", "main"} : line = "    call " \o f
                target == {i \in 1..Len(m.text) : m.text[i] = f \o ":"}
            IN  IF target = {} THEN {Fault(m)}
                ELSE {[Pushed(m, m.ip + 1) EXCEPT !.ip = i] : i \in target}
      [] line = "    ret" ->
            {IF v = 0 THEN [m EXCEPT !.status = "halted", !.rsp = @ + 8]
             ELSE IF v \in 1..Len(m.text) THEN [m EXCEPT !.ip = v, !.rsp = @ + 8]
             ELSE Fault(m) : v \in Rd(m, m.rsp)}
      [] OTHER -> {next}

\* the processor about to run `entry` of a text, called from outside it
Loaded(text, entry) ==
    [status |-> "running", text |-> text,
     ip |-> CHOOSE i \in 1..Len(text) : text[i] = entry \o ":",
     rax |-> 0, rbx |-> 0, rdx |-> 0, flags |-> <<0, 0>>,
     rsp |-> -8, rbp |-> 0, mem |-> [a \in {-8} |-> 0]]

(***************************************************************************)
(* The statements the program is drawn from.  One record shape for the     *)
(* eight Statement variants of ast.rs: value holds the expression of an    *)
(* expression statement, the value of an assignment or a return and the    *)
(* condition of an if or a while.                                          *)
(***************************************************************************)
Stmt(kind, name, var_type, initializer, value, parameters, return_type) ==
    [stmt |-> kind, name |-> name, var_type |-> var_type, initializer |-> initializer,
     value |-> value, parameters |-> parameters, return_type |-> return_type]

NoStmt == Stmt("None", "", TVoid, <<>>, <<>>, <<>>, TVoid)

Param(n, t) == [name |-> n, param_type |-> t]

VarNames == {"x", "y"}
FuncNames == {"f", "g"}
DeclTypes == {TInt, TFloat}
Initializers == {<<>>, <<IntLit(1)>>, <<StrLit("a")>>, <<Call("f", <<>>)>>}
StmtExprs ==
    {StrLit("a"), StrLit("b"), Ident("x"), Ident("y"), Ident("f"),
     Assign("x", IntLit(1)), Assign("f", IntLit(1)), Assign("f", Ident("g")),
     Call("f", <<>>), Call("f", <<IntLit(1)>>), Call("f", <<StrLit("a")>>),
     Call("x", <<>>)}
ParamLists == {<<>>, <<Param("a", TInt)>>, <<Param("a", TInt), Param("a", TInt)>>}
ReturnTypes == {TVoid, TInt}
ReturnValues == {<<>>, <<IntLit(1)>>}
Conditions == {BoolLit(1), IntLit(1)}
AssignTargets == {"x", "f"}
AssignValues == {IntLit(1)}

(***************************************************************************)
(* parser.rs: Parser.  p is the parser (tokens, current); a method that    *)
(* returns a CompilerResult returns the parser it leaves behind, the       *)
(* result and, when it is Ok, the value.  floor is the least value of      *)
(* current at which previous() was evaluated so far (Len(tokens) when it   *)
(* never was): looked notes an evaluation of previous().  A loop whose     *)
(* iteration returns Ok and leaves current where it was would repeat that  *)
(* iteration for ever: the loop's result is then `diverges`.               *)
(***************************************************************************)
syntax(line, column) ==
    [kind |-> "SyntaxError", line |-> <<line>>, column |-> <<column>>, type |-> <<>>]

diverges == [kind |-> "Diverges", line |-> <<>>, column |-> <<>>, type |-> <<>>]

ParserNew(tokens) == [tokens |-> tokens, current |-> 0, floor |-> Len(tokens)]

looked(p) == [p EXCEPT !.floor = IF p.current < @ THEN p.current ELSE @]

Parsed(p, value) == [parser |-> p, result |-> Ok, value |-> <<value>>]

Failed(p, error) == [parser |-> p, result |-> error, value |-> <<>>]

peek(p) == p.tokens[p.current + 1]

previous(p) == p.tokens[p.current]

is_at_end(p) == peek(p).token = "Eof"

check(p, token) == IF is_at_end(p) THEN FALSE ELSE peek(p).token = token

\* the parser after advance, and the Option<&TokenInfo> it returns
advance(p) ==
    IF ~is_at_end(p)
    THEN LET q == looked([p EXCEPT !.current = @ + 1]) IN
         [parser |-> q, token |-> <<previous(q)>>]
    ELSE [parser |-> p, token |-> <<>>]

match_token(p, token) ==
    IF check(p, token) THEN [parser |-> advance(p).parser, matched |-> TRUE]
    ELSE [parser |-> p, matched |-> FALSE]

expect(p, token) ==
    IF check(p, token)
    THEN LET a == advance(p) IN Parsed(a.parser, a.token[1])
    ELSE Failed(p, syntax(peek(p).location.line, peek(p).location.column))

\* the operators of or, and, equality, comparison, term and factor, from
\* the loosest level to the tightest, as token and BinaryOperator
Levels ==
    << {<<"Or", "||">>},
       {<<"And", "&&">>},
       {<<"Equal", "==">>, <<"NotEqual", "!=">>},
       {<<"LessThan", "<">>, <<"LessThanEqual", "<=">>, <<"GreaterThan", ">">>,
        <<"GreaterThanEqual", ">=">>},
       {<<"Plus", "+">>, <<"Minus", "-">>},
       {<<"Star", "*">>, <<"Slash", "/">>, <<"Percent", "%">>} >>

RECURSIVE expression(_)
RECURSIVE assignment(_)
RECURSIVE binary_level(_, _)
RECURSIVE binary_loop(_, _, _)
RECURSIVE unary(_)
RECURSIVE call(_)
RECURSIVE call_loop(_, _)
RECURSIVE finish_call(_, _)
RECURSIVE finish_call_arguments(_, _)
RECURSIVE primary(_)
RECURSIVE statement(_)
RECURSIVE declaration(_)
RECURSIVE block_loop(_, _)
RECURSIVE parameter_loop(_, _)

\* the result of a call that is used more than once is bound to its name by
\* value, as the one element of a singleton
Only(S) == CHOOSE v \in S : TRUE

primary(p) ==
    LET a == advance(p) IN
    IF a.token = <<>> THEN Failed(p, syntax(0, 0))
    ELSE LET token_info == a.token[1]
             q == a.parser
         IN  CASE token_info.token = "Integer" -> Parsed(q, IntLit(token_info.val))
               [] token_info.token = "Boolean" -> Parsed(q, BoolLit(token_info.val = 1))
               [] token_info.token = "Identifier" -> Parsed(q, Ident(token_info.name))
               [] token_info.token = "LeftParen" ->
                     Only({IF expr.result.kind # "Ok" THEN expr
                           ELSE LET closed == expect(expr.parser, "RightParen") IN
                                IF closed.result.kind # "Ok" THEN closed
                                ELSE Parsed(closed.parser, expr.value[1]) :
                           expr \in {expression(q)}})
               [] OTHER ->
                     Failed(q, syntax(token_info.location.line, token_info.location.column))

\* the loop of finish_call that pushes the arguments
finish_call_arguments(p, arguments) ==
    Only({IF argument.result.kind # "Ok" THEN argument
          ELSE LET comma == match_token(argument.parser, "Comma")
                   pushed == Append(arguments, argument.value[1])
               IN  IF comma.parser.current = p.current THEN Failed(comma.parser, diverges)
                   ELSE IF comma.matched THEN finish_call_arguments(comma.parser, pushed)
                   ELSE Parsed(comma.parser, pushed) :
          argument \in {expression(p)}})

\* a call whose callee is any expression at all
finish_call_any_callee(p, callee) ==
    Only({IF arguments.result.kind # "Ok" THEN arguments
          ELSE LET closed == expect(arguments.parser, "RightParen") IN
               IF closed.result.kind # "Ok" THEN closed
               ELSE Parsed(closed.parser, Call(callee.name, arguments.value[1])) :
          arguments \in {IF ~check(p, "RightParen") THEN finish_call_arguments(p, <<>>)
                         ELSE Parsed(p, <<>>)}})

finish_call(p, callee) ==
    Only({IF arguments.result.kind # "Ok" THEN arguments
          ELSE LET closed == expect(arguments.parser, "RightParen") IN
               IF closed.result.kind # "Ok" THEN closed
               ELSE LET location == closed.value[1].location IN
                    IF callee.kind = "Identifier"
                    THEN Parsed(closed.parser, Call(callee.name, arguments.value[1]))
                    ELSE Failed(closed.parser, syntax(location.line, location.column)) :
          arguments \in {IF ~check(p, "RightParen") THEN finish_call_arguments(p, <<>>)
                         ELSE Parsed(p, <<>>)}})

\* the loop of call
call_loop(p, expr) ==
    LET paren == match_token(p, "LeftParen") IN
    IF paren.matched
    THEN Only({IF called.result.kind # "Ok" THEN called
               ELSE call_loop(called.parser, called.value[1]) :
               called \in {finish_call(paren.parser, expr)}})
    ELSE Parsed(p, expr)

call(p) ==
    Only({IF expr.result.kind # "Ok" THEN expr ELSE call_loop(expr.parser, expr.value[1]) :
          expr \in {primary(p)}})

unary(p) ==
    IF check(p, "Not") \/ check(p, "Minus")
    THEN LET q == looked(advance(p).parser)
             operator == IF previous(q).token = "Not" THEN "Not" ELSE "Minus"
         IN  Only({IF operand.result.kind # "Ok" THEN operand
                   ELSE Parsed(looked(operand.parser), Unary(operator, operand.value[1])) :
                   operand \in {unary(q)}})
    ELSE call(p)

\* the loop of a level that takes the rest of the level as its right operand
binary_loop_right_associative(p, level, expr) ==
    IF \E o \in Levels[level] : check(p, o[1])
    THEN LET q == looked(advance(p).parser)
             operator == (CHOOSE o \in Levels[level] : o[1] = previous(q).token)[2]
         IN  Only({IF right.result.kind # "Ok" THEN right
                   ELSE Parsed(looked(right.parser), Binary(operator, expr, right.value[1])) :
                   right \in {binary_level(q, level)}})
    ELSE Parsed(p, expr)

\* the while loop of the level: one operator of the level and its right
\* operand, folded to the left
binary_loop(p, level, expr) ==
    IF \E o \in Levels[level] : check(p, o[1])
    THEN LET q == looked(advance(p).parser)
             operator == (CHOOSE o \in Levels[level] : o[1] = previous(q).token)[2]
         IN  Only({IF right.result.kind # "Ok" THEN right
                   ELSE IF right.parser.current = p.current
                   THEN Failed(right.parser, diverges)
                   ELSE binary_loop(looked(right.parser), level,
                                    Binary(operator, expr, right.value[1])) :
                   right \in {binary_level(q, level + 1)}})
    ELSE Parsed(p, expr)

\* the levels 1 .. 6 are or, and, equality, comparison, term and factor
binary_level(p, level) ==
    IF level > Len(Levels) THEN unary(p)
    ELSE Only({IF expr.result.kind # "Ok" THEN expr
               ELSE binary_loop(expr.parser, level, expr.value[1]) :
               expr \in {binary_level(p, level + 1)}})

factor(p) == binary_level(p, 6)

term(p) == binary_level(p, 5)

comparison(p) == binary_level(p, 4)

equality(p) == binary_level(p, 3)

and(p) == binary_level(p, 2)

or(p) == binary_level(p, 1)

\* the rest of assignment once its left side is parsed
assignment_rest(expr) ==
    IF expr.result.kind # "Ok" THEN expr
    ELSE LET assign == match_token(expr.parser, "Assign") IN
         IF assign.matched
         THEN Only({IF value.result.kind # "Ok" THEN value
                    ELSE IF expr.value[1].kind = "Identifier"
                    THEN Parsed(looked(value.parser),
                                Assign(expr.value[1].name, value.value[1]))
                    ELSE Failed(looked(value.parser),
                                syntax(previous(value.parser).location.line,
                                       previous(value.parser).location.column)) :
                    value \in {assignment(assign.parser)}})
         ELSE Parsed(expr.parser, expr.value[1])

assignment(p) == Only({assignment_rest(expr) : expr \in {or(p)}})

expression(p) == assignment(p)

\* an expression statement whose location is taken before its expression
expression_statement_location_first(p) ==
    Only({IF expr.result.kind # "Ok" THEN expr
          ELSE LET semicolon == expect(expr.parser, "Semicolon") IN
               IF semicolon.result.kind # "Ok" THEN semicolon
               ELSE Parsed(semicolon.parser,
                           Stmt("Expression", "", TVoid, <<>>, expr.value, <<>>, TVoid)) :
          expr \in {expression(looked(p))}})

expression_statement(p) ==
    Only({IF expr.result.kind # "Ok" THEN expr
          ELSE LET semicolon == expect(looked(expr.parser), "Semicolon") IN
               IF semicolon.result.kind # "Ok" THEN semicolon
               ELSE Parsed(semicolon.parser,
                           Stmt("Expression", "", TVoid, <<>>, expr.value, <<>>, TVoid)) :
          expr \in {expression(p)}})

TypeTokens ==
    {<<"Int", TInt>>, <<"FloatType", TFloat>>, <<"Bool", TBool>>, <<"StringType", TString>>,
     <<"Void", TVoid>>}

parse_type(p) ==
    LET a == advance(p) IN
    IF a.token = <<>> THEN Failed(p, syntax(0, 0))
    ELSE LET token_info == a.token[1] IN
         IF \E t \in TypeTokens : t[1] = token_info.token
         THEN Parsed(a.parser, (CHOOSE t \in TypeTokens : t[1] = token_info.token)[2])
         ELSE Failed(a.parser, syntax(token_info.location.line, token_info.location.column))

\* var_declaration after its name
var_declaration_rest(p, name) ==
    LET colon == match_token(p, "Colon")
        var_type == IF colon.matched THEN parse_type(colon.parser) ELSE Parsed(p, TInt)
    IN  IF var_type.result.kind # "Ok" THEN var_type
        ELSE LET assign == match_token(var_type.parser, "Assign") IN
             Only({IF initializer.result.kind # "Ok" THEN initializer
                   ELSE LET semicolon == expect(initializer.parser, "Semicolon") IN
                        IF semicolon.result.kind # "Ok" THEN semicolon
                        ELSE Parsed(semicolon.parser,
                                    Stmt("Declaration", name, var_type.value[1],
                                         initializer.value, <<>>, <<>>, TVoid)) :
                   initializer \in {IF assign.matched THEN expression(assign.parser)
                                    ELSE [parser |-> assign.parser, result |-> Ok,
                                          value |-> <<>>]}})

var_declaration(p) ==
    LET a == advance(looked(p)) IN
    IF a.token = <<>> THEN Failed(p, syntax(0, 0))
    ELSE LET token_info == a.token[1] IN
         IF token_info.token = "Identifier"
         THEN var_declaration_rest(a.parser, token_info.name)
         ELSE Failed(a.parser, syntax(token_info.location.line, token_info.location.column))

\* a statement with statements inside: the branches of an if, the body of
\* a while or a function, the statements of a block
Node(kind, name, value, parameters, return_type, body) ==
    [stmt |-> kind, name |-> name, var_type |-> TVoid, initializer |-> <<>>,
     value |-> value, parameters |-> parameters, return_type |-> return_type,
     body |-> body]

\* the loop of block_statement
block_loop(p, statements) ==
    IF ~check(p, "RightBrace") /\ ~is_at_end(p)
    THEN Only({IF stmt.result.kind # "Ok" THEN stmt
               ELSE IF stmt.parser.current = p.current THEN Failed(stmt.parser, diverges)
               ELSE block_loop(stmt.parser, Append(statements, stmt.value[1])) :
               stmt \in {declaration(p)}})
    ELSE Parsed(p, statements)

block_statement(p) ==
    Only({IF statements.result.kind # "Ok" THEN statements
          ELSE LET q == statements.parser IN
               IF is_at_end(q)
               THEN Failed(looked(q), syntax(previous(q).location.line,
                                             previous(q).location.column))
               ELSE LET brace == expect(q, "RightBrace") IN
                    IF brace.result.kind # "Ok" THEN brace
                    ELSE Parsed(brace.parser,
                                Node("Block", "", <<>>, <<>>, TVoid, statements.value[1])) :
          statements \in {block_loop(looked(p), <<>>)}})

\* if_statement after its then branch
if_statement_else(condition, then) ==
    LET else == match_token(then.parser, "Else") IN
    IF else.matched
    THEN Only({IF else_branch.result.kind # "Ok" THEN else_branch
               ELSE Parsed(else_branch.parser,
                           Node("If", "", <<condition>>, <<>>, TVoid,
                                <<then.value[1], else_branch.value[1]>>)) :
               else_branch \in {statement(else.parser)}})
    ELSE Parsed(else.parser, Node("If", "", <<condition>>, <<>>, TVoid, <<then.value[1]>>))

\* `( condition )` of an if or a while
parenthesised_condition(p) ==
    LET open == expect(p, "LeftParen") IN
    IF open.result.kind # "Ok" THEN open
    ELSE Only({IF condition.result.kind # "Ok" THEN condition
               ELSE LET close == expect(condition.parser, "RightParen") IN
                    IF close.result.kind # "Ok" THEN close
                    ELSE Parsed(close.parser, condition.value[1]) :
               condition \in {expression(open.parser)}})

if_statement(p) ==
    Only({IF condition.result.kind # "Ok" THEN condition
          ELSE Only({IF then.result.kind # "Ok" THEN then
                     ELSE if_statement_else(condition.value[1], then) :
                     then \in {statement(condition.parser)}}) :
          condition \in {parenthesised_condition(looked(p))}})

while_statement(p) ==
    Only({IF condition.result.kind # "Ok" THEN condition
          ELSE Only({IF body.result.kind # "Ok" THEN body
                     ELSE Parsed(body.parser,
                                 Node("While", "", condition.value, <<>>, TVoid,
                                      body.value)) :
                     body \in {statement(condition.parser)}}) :
          condition \in {parenthesised_condition(looked(p))}})

return_statement(p) ==
    Only({IF value.result.kind # "Ok" THEN value
          ELSE LET semicolon == expect(value.parser, "Semicolon") IN
               IF semicolon.result.kind # "Ok" THEN semicolon
               ELSE Parsed(semicolon.parser,
                           Stmt("Return", "", TVoid, <<>>, value.value, <<>>, TVoid)) :
          value \in {IF ~check(looked(p), "Semicolon") THEN expression(looked(p))
                     ELSE [parser |-> looked(p), result |-> Ok, value |-> <<>>]}})

\* a statement that accepts an empty statement and leaves its ";" unread
statement_empty_unconsumed(p) ==
    IF check(p, "Semicolon")
    THEN Parsed(p, Stmt("Expression", "", TVoid, <<>>, <<>>, <<>>, TVoid))
    ELSE IF match_token(p, "If").matched THEN if_statement(match_token(p, "If").parser)
    ELSE IF match_token(p, "While").matched
    THEN while_statement(match_token(p, "While").parser)
    ELSE IF match_token(p, "Return").matched
    THEN return_statement(match_token(p, "Return").parser)
    ELSE IF match_token(p, "LeftBrace").matched
    THEN block_statement(match_token(p, "LeftBrace").parser)
    ELSE expression_statement(p)

statement(p) ==
    IF match_token(p, "If").matched THEN if_statement(match_token(p, "If").parser)
    ELSE IF match_token(p, "While").matched
    THEN while_statement(match_token(p, "While").parser)
    ELSE IF match_token(p, "Return").matched
    THEN return_statement(match_token(p, "Return").parser)
    ELSE IF match_token(p, "LeftBrace").matched
    THEN block_statement(match_token(p, "LeftBrace").parser)
    ELSE expression_statement(p)

\* the loop of function_declaration that pushes the parameters
parameter_loop(p, parameters) ==
    LET a == advance(p) IN
    IF a.token = <<>> THEN Failed(p, syntax(0, 0))
    ELSE IF a.token[1].token # "Identifier"
    THEN Failed(a.parser, syntax(a.token[1].location.line, a.token[1].location.column))
    ELSE LET colon == expect(a.parser, "Colon") IN
         IF colon.result.kind # "Ok" THEN colon
         ELSE LET param_type == parse_type(colon.parser) IN
              IF param_type.result.kind # "Ok" THEN param_type
              ELSE LET comma == match_token(looked(param_type.parser), "Comma")
                       pushed == Append(parameters,
                                        Param(a.token[1].name, param_type.value[1]))
                   IN  IF comma.parser.current = p.current
                       THEN Failed(comma.parser, diverges)
                       ELSE IF comma.matched THEN parameter_loop(comma.parser, pushed)
                       ELSE Parsed(comma.parser, pushed)

\* function_declaration after its parameters
function_declaration_rest(name, parameters) ==
    IF parameters.result.kind # "Ok" THEN parameters
    ELSE LET close == expect(parameters.parser, "RightParen") IN
         IF close.result.kind # "Ok" THEN close
         ELSE LET arrow == match_token(close.parser, "Arrow")
                  return_type == IF arrow.matched THEN parse_type(arrow.parser)
                                 ELSE Parsed(arrow.parser, TVoid)
              IN  IF return_type.result.kind # "Ok" THEN return_type
                  ELSE LET brace == expect(return_type.parser, "LeftBrace") IN
                       IF brace.result.kind # "Ok" THEN brace
                       ELSE Only({IF body.result.kind # "Ok" THEN body
                                  ELSE Parsed(body.parser,
                                              Node("Function", name, <<>>,
                                                   parameters.value[1],
                                                   return_type.value[1], body.value)) :
                                  body \in {block_statement(brace.parser)}})

function_declaration(p) ==
    LET a == advance(looked(p)) IN
    IF a.token = <<>> THEN Failed(p, syntax(0, 0))
    ELSE IF a.token[1].token # "Identifier"
    THEN Failed(a.parser, syntax(a.token[1].location.line, a.token[1].location.column))
    ELSE LET open == expect(a.parser, "LeftParen") IN
         IF open.result.kind # "Ok" THEN open
         ELSE function_declaration_rest(a.token[1].name,
                  IF ~check(open.parser, "RightParen") THEN parameter_loop(open.parser, <<>>)
                  ELSE Parsed(open.parser, <<>>))

declaration(p) ==
    IF match_token(p, "Var").matched THEN var_declaration(match_token(p, "Var").parser)
    ELSE IF match_token(p, "Func").matched
    THEN function_declaration(match_token(p, "Func").parser)
    ELSE statement(p)

\* the loop of parse
RECURSIVE parse_from(_, _)
parse_from(p, statements) ==
    IF is_at_end(p) THEN [result |-> Ok, program |-> statements, parser |-> p]
    ELSE Only({IF stmt.result.kind # "Ok"
               THEN [result |-> stmt.result, program |-> <<>>, parser |-> stmt.parser]
               ELSE IF stmt.parser.current = p.current
               THEN [result |-> diverges, program |-> <<>>, parser |-> stmt.parser]
               ELSE parse_from(stmt.parser, Append(statements, stmt.value[1])) :
               stmt \in {declaration(p)}})

parse(tokens) == parse_from(ParserNew(tokens), <<>>)

(***************************************************************************)
(* State.                                                                  *)
(*   pc          "new" before analyze and generate are called, "walk"      *)
(*               while statements are handed over, "done" when analyze     *)
(*               has returned an error or the program has ended            *)
(*   analyzer    the SemanticAnalyzer                                      *)
(*   a_stack     the frames of the analyzer's active block and function    *)
(*               calls (old_scope, old_return_type), innermost last        *)
(*   analysis    what analyze has returned (Running until it returns)      *)
(*   codegen     the CodeGenerator                                         *)
(*   g_stack     the frames of the generator's active function, if and     *)
(*               while calls, innermost last                               *)
(*   assembly    the text generated so far                                 *)
(*   generation  what generate has returned (Running until it returns)     *)
(*   nest        the path from the program to the statement list or branch *)
(*               the next statement belongs to; each region with the names *)
(*               declared in it so far, the names declared in regions      *)
(*               inside it that have ended and, for a function's body, the *)
(*               function's declared return type                           *)
(*   nstmts      the number of statements drawn so far                     *)
(*   last        the statement drawn last, or the closing brace            *)
(*   rerun       the text a second call of compile on the same source, with *)
(*               a CodeGenerator of its own, has generated so far          *)
(*   tc          the pair of types types_compatible is applied to, and     *)
(*               what it and the handlers that call it answered            *)
(*   lx          the source Lexer::tokenize is applied to, and what it     *)
(*               returned                                                  *)
(*   prs         what Parser::parse returned for the tokens of lx          *)
(*   mach        the processor running the text generated for a program    *)
(*   frm         the generator inside a function whose locals are declared *)
(***************************************************************************)
VARIABLES pc, analyzer, a_stack, analysis, codegen, g_stack, assembly, generation,
          nest, nstmts, last, rerun, tc, lx, prs, mach, frm

vars == <<pc, analyzer, a_stack, analysis, codegen, g_stack, assembly, generation,
          nest, nstmts, last, rerun, tc, lx, prs, mach, frm>>

pipeline_vars == <<pc, analyzer, a_stack, analysis, codegen, g_stack, assembly,
                   generation, nest, nstmts, last, rerun>>

gen_vars == <<codegen, g_stack, assembly, generation, rerun>>

unit_vars == <<tc, lx, prs, mach, frm>>

Region(kind, declared) ==
    [kind |-> kind, declared |-> declared, ended |-> {}, returns |-> <<>>]

Top(s) == s[Len(s)]

Pop(s) == SubSeq(s, 1, Len(s) - 1)

SetTop(s, e) == [s EXCEPT ![Len(s)] = e]

Location == [line |-> nstmts + 1, column |-> 1]

\* where a declaration or a function definition may stand (Parser::declaration)
AtDeclaration == Top(nest).kind \in {"program", "block", "function"}

\* where a statement may stand (Parser::statement): also as a branch or a body
AtStatement == Top(nest).kind \in {"program", "block", "function", "then", "afterthen", "while"}

\* the statement drawn after a then branch is the else branch
Begin(n) == IF Top(n).kind = "afterthen" THEN SetTop(n, [Top(n) EXCEPT !.kind = "else"]) ELSE n

\* The if and while statements that end with the statement that just ended:
\* a then branch leaves its if waiting for an else branch, an else branch
\* ends its if, a body ends its while, and so on outwards.
RECURSIVE Closing(_)
Closing(n) ==
    CASE Top(n).kind = "then" ->
            [nest |-> SetTop(n, [Top(n) EXCEPT !.kind = "afterthen"]), closed |-> <<"then">>]
      [] Top(n).kind \in {"else", "while"} ->
            LET rest == Closing(Pop(n)) IN
            [nest |-> rest.nest, closed |-> <<Top(n).kind>> \o rest.closed]
      [] OTHER -> [nest |-> n, closed |-> <<>>]

\* what the generator's handlers of the statements in `closed` emit when
\* their branch or body returns, and the frames that remain
RECURSIVE gen_close(_, _)
gen_close(stack, closed) ==
    IF closed = <<>> THEN [g_stack |-> stack, assembly |-> <<>>]
    ELSE CASE Head(closed) = "then" ->
                [g_stack |-> stack, assembly |-> generate_if_statement_else(Top(stack))]
           [] Head(closed) = "else" ->
                LET rest == gen_close(Pop(stack), Tail(closed)) IN
                [g_stack |-> rest.g_stack,
                 assembly |-> generate_if_statement_exit(Top(stack)) \o rest.assembly]
           [] Head(closed) = "while" ->
                LET rest == gen_close(Pop(stack), Tail(closed)) IN
                [g_stack |-> rest.g_stack,
                 assembly |-> generate_while_statement_exit(Top(stack)) \o rest.assembly]

(***************************************************************************)
(* One statement handed to the analyzer and to the generator.              *)
(*   ar        the analyzer's handler: [analyzer, result]                  *)
(*   a_stack1  the analyzer's frames after it                              *)
(*   gr        the generator's handler: [result, assembly, codegen]        *)
(*   g_stack1  the generator's frames after it                             *)
(*   nest1     the path after it                                           *)
(*   complete  whether the statement has ended with it                     *)
(* An error of the analyzer ends the compilation (compile returns it).  An *)
(* error of the generator ends generate, whose text is dropped; the        *)
(* analyzer's verdict on the rest of the program is still followed.        *)
(***************************************************************************)
Step(st, ar, a_stack1, gr, g_stack1, nest1, complete) ==
    LET cl == IF complete THEN Closing(nest1) ELSE [nest |-> nest1, closed |-> <<>>] IN
    /\ last' = st
    /\ analyzer' = ar.analyzer
    /\ IF ar.result.kind # "Ok"
       THEN /\ analysis' = ar.result
            /\ pc' = "done"
            /\ UNCHANGED <<a_stack, nest, gen_vars>>
       ELSE /\ UNCHANGED <<analysis, pc>>
            /\ a_stack' = a_stack1
            /\ nest' = cl.nest
            /\ IF generation.kind # "Running" THEN UNCHANGED gen_vars
               ELSE IF gr.result.kind # "Ok"
               THEN /\ generation' = gr.result
                    /\ codegen' = gr.codegen
                    /\ assembly' = <<>>
                    /\ rerun' = <<>>
                    /\ UNCHANGED g_stack
               ELSE LET gc == gen_close(g_stack1, cl.closed) IN
                    /\ codegen' = gr.codegen
                    /\ assembly' = assembly \o gr.assembly \o gc.assembly
                    /\ rerun' = rerun \o gr.assembly \o gc.assembly
                    /\ g_stack' = gc.g_stack
                    /\ UNCHANGED generation

Declare(n, name) == SetTop(n, [Top(n) EXCEPT !.declared = @ \cup {name}])

NoTypes ==
    [expected |-> TVoid, actual |-> TVoid, stage |-> "none", compatible |-> FALSE,
     declaration |-> Running, assignment |-> Running, argument |-> Running,
     returned |-> Running, operator |-> "", binary |-> Running]

PipelineInit ==
    /\ pc = "new"
    /\ analyzer = SemanticAnalyzerNew
    /\ a_stack = <<>>
    /\ analysis = Running
    /\ codegen = CodeGeneratorNew
    /\ g_stack = <<>>
    /\ assembly = <<>>
    /\ generation = Running
    /\ rerun = <<>>
    /\ nest = <<Region("program", {})>>
    /\ nstmts = 0
    /\ last = NoStmt

NoSource == [stage |-> "none", source |-> <<>>, result |-> Running, tokens |-> <<>>]

NoParse == [stage |-> "none", result |-> Running, program |-> <<>>, current |-> 0, floor |-> 1]

NoMachine ==
    [stage |-> "none", cpu |-> Loaded(<<"main:">>, "main"), expression |-> IntLit(0),
     callee |-> IntLit(0), from |-> 0, to |-> 0, before |-> <<>>]

NoFrame == [stage |-> "none", codegen |-> CodeGeneratorNew, declared |-> 0, assembly |-> <<>>]

Idle == mach = NoMachine /\ frm = NoFrame

Init == PipelineInit /\ tc = NoTypes /\ lx = NoSource /\ prs = NoParse /\ Idle

\* analyze up to its loop (define_builtins) and generate up to its loop
Start ==
    /\ pc = "new"
    /\ \E entries \in Orderings(codegen.string_literals) :
          LET b == define_builtins(analyzer) IN
          /\ analyzer' = b.analyzer
          /\ assembly' = generate_header(entries)
          /\ \E again \in Orderings(codegen.string_literals) :
                rerun' = generate_header(again)
          /\ IF b.result.kind # "Ok"
             THEN analysis' = b.result /\ pc' = "done"
             ELSE pc' = "walk" /\ UNCHANGED analysis
    /\ UNCHANGED <<a_stack, codegen, g_stack, generation, nest, nstmts, last, unit_vars>>

CanDraw == pc = "walk" /\ nstmts < MaxStmts

Declaration ==
    /\ CanDraw /\ AtDeclaration
    /\ \E name \in VarNames, var_type \in DeclTypes, initializer \in Initializers :
          LET decl == Stmt("Declaration", name, var_type, initializer, <<>>, <<>>, TVoid) IN
          Step(decl, analyze_declaration(analyzer, decl, Location), a_stack,
               generate_declaration(codegen, decl), g_stack,
               Declare(nest, name), TRUE)
    /\ nstmts' = nstmts + 1
    /\ UNCHANGED unit_vars

Expression ==
    /\ CanDraw /\ AtStatement
    /\ \E e \in StmtExprs :
          Step(Stmt("Expression", "", TVoid, <<>>, <<e>>, <<>>, TVoid),
               [analyzer |-> analyzer,
                result |-> [analyze_expression(analyzer.current_scope, e, Location)
                               EXCEPT !.type = <<>>]],
               a_stack,
               generate_expression_statement(codegen, e), g_stack,
               Begin(nest), TRUE)
    /\ nstmts' = nstmts + 1
    /\ UNCHANGED unit_vars

Assignment ==
    /\ CanDraw /\ AtDeclaration
    /\ \E target \in AssignTargets, value \in AssignValues :
          LET assign == Stmt("Assignment", target, TVoid, <<>>, <<value>>, <<>>, TVoid) IN
          Step(assign, analyze_assignment(analyzer, assign, Location), a_stack,
               generate_assignment(codegen, assign), g_stack,
               nest, TRUE)
    /\ nstmts' = nstmts + 1
    /\ UNCHANGED unit_vars

Return ==
    /\ CanDraw /\ AtStatement
    /\ \E value \in ReturnValues :
          Step(Stmt("Return", "", TVoid, <<>>, value, <<>>, TVoid),
               analyze_return_statement(analyzer, value, Location), a_stack,
               generate_return_statement(codegen, value), g_stack,
               Begin(nest), TRUE)
    /\ nstmts' = nstmts + 1
    /\ UNCHANGED unit_vars

CanNest == CanDraw /\ Len(nest) <= MaxDepth

If ==
    /\ CanNest /\ AtStatement
    /\ \E condition \in Conditions :
          LET gr == generate_if_statement_enter(codegen, condition) IN
          Step(Stmt("If", "", TVoid, <<>>, <<condition>>, <<>>, TVoid),
               analyze_if_statement(analyzer, condition, Location), a_stack,
               gr, g_stack \o gr.saved,
               Begin(nest) \o <<Region("then", {})>>, FALSE)
    /\ nstmts' = nstmts + 1
    /\ UNCHANGED unit_vars

\* an if statement without an else branch ends after its then branch
NoElse ==
    /\ pc = "walk"
    /\ Top(nest).kind = "afterthen"
    /\ LET cl == Closing(Pop(nest))
           gc == gen_close(Pop(g_stack), cl.closed)
       IN  /\ nest' = cl.nest
           /\ IF generation.kind # "Running" THEN UNCHANGED gen_vars
              ELSE /\ assembly' = assembly \o generate_if_statement_exit(Top(g_stack))
                                           \o gc.assembly
                   /\ rerun' = rerun \o generate_if_statement_exit(Top(g_stack))
                                     \o gc.assembly
                   /\ g_stack' = gc.g_stack
                   /\ UNCHANGED <<codegen, generation>>
    /\ UNCHANGED <<pc, analyzer, a_stack, analysis, nstmts, last, unit_vars>>

While ==
    /\ CanNest /\ AtStatement
    /\ \E condition \in Conditions :
          LET gr == generate_while_statement_enter(codegen, condition) IN
          Step(Stmt("While", "", TVoid, <<>>, <<condition>>, <<>>, TVoid),
               analyze_while_statement(analyzer, condition, Location), a_stack,
               gr, g_stack \o gr.saved,
               Begin(nest) \o <<Region("while", {})>>, FALSE)
    /\ nstmts' = nstmts + 1
    /\ UNCHANGED unit_vars

Function ==
    /\ CanNest /\ AtDeclaration
    /\ \E name \in FuncNames, parameters \in ParamLists, return_type \in ReturnTypes :
          LET func == Stmt("Function", name, TVoid, <<>>, <<>>, parameters, return_type)
              ar == analyze_function_declaration_enter(analyzer, func, Location)
              gr == generate_function_enter(codegen, func)
          IN  Step(func, ar, a_stack \o ar.saved, gr, g_stack \o gr.saved,
                   Declare(nest, name)
                   \o <<[Region("function",
                                {parameters[i].name : i \in 1..Len(parameters)})
                             EXCEPT !.returns = <<return_type>>]>>,
                   FALSE)
    /\ nstmts' = nstmts + 1
    /\ UNCHANGED unit_vars

Block ==
    /\ CanNest /\ AtStatement
    /\ LET ar == analyze_block_statement_enter(analyzer) IN
       Step(Stmt("Block", "", TVoid, <<>>, <<>>, <<>>, TVoid),
            ar, a_stack \o ar.saved, GenOk(codegen, <<>>), g_stack,
            Begin(nest) \o <<Region("block", {})>>, FALSE)
    /\ nstmts' = nstmts + 1
    /\ UNCHANGED unit_vars

\* the closing brace of a block or of a function's body: the loop of
\* analyze_block_statement ends, and for a body analyze_function_declaration
\* and generate_function return as well
EndBlock ==
    /\ pc = "walk"
    /\ Top(nest).kind \in {"block", "function"}
    /\ LET body == Top(nest).kind = "function"
           a1 == analyze_block_statement_exit(analyzer, Top(a_stack))
           a2 == IF body THEN analyze_function_declaration_exit(a1, Top(Pop(a_stack))) ELSE a1
           outer == Pop(nest)
           nest1 == SetTop(outer, [Top(outer) EXCEPT
                        !.ended = @ \cup Top(nest).declared \cup Top(nest).ended])
       IN  Step(Stmt("End", "", TVoid, <<>>, <<>>, <<>>, TVoid),
                [analyzer |-> a2, result |-> Ok],
                IF body THEN Pop(Pop(a_stack)) ELSE Pop(a_stack),
                IF body THEN generate_function_exit(codegen, Top(g_stack))
                        ELSE GenOk(codegen, <<>>),
                IF body THEN Pop(g_stack) ELSE g_stack,
                nest1, TRUE)
    /\ UNCHANGED <<nstmts, unit_vars>>

\* the end of the program: analyze returns Ok and generate its text
Finish ==
    /\ pc = "walk"
    /\ Len(nest) = 1
    /\ pc' = "done"
    /\ analysis' = Ok
    /\ IF generation.kind # "Running" THEN UNCHANGED <<generation, assembly, rerun>>
       ELSE /\ generation' = Ok
            /\ assembly' = assembly \o generate_footer(codegen)
            /\ rerun' = rerun \o generate_footer(codegen)
    /\ UNCHANGED <<analyzer, a_stack, codegen, g_stack, nest, nstmts, last, unit_vars>>

Next ==
    \/ Start
    \/ Declaration
    \/ Expression
    \/ Assignment
    \/ Return
    \/ If
    \/ NoElse
    \/ While
    \/ Function
    \/ Block
    \/ EndBlock
    \/ Finish

Spec == Init /\ [][Next]_vars

(***************************************************************************)
(* types_compatible on its own: a pair of types is drawn, types_compatible *)
(* is applied to it, and then each handler that calls it is applied to a   *)
(* statement whose declared type is `expected` and whose value (the        *)
(* identifier v) has the type `actual`, in an analyzer whose scope holds   *)
(* the built-ins and the symbols the statement names.                      *)
(***************************************************************************)
MaxParams == 2

Prims == {TInt, TFloat, TBool, TString, TVoid}

ParamPrims == {TInt, TFloat, TString}

ReturnPrims == {TInt, TFloat, TVoid}

SeqsUpTo(S, n) == UNION {[1..k -> S] : k \in 0..n}

FirstOrder == {FunctionType(ps, r) : ps \in SeqsUpTo(ParamPrims, MaxParams), r \in ReturnPrims}

HigherOrder ==
    {FunctionType(<<f>>, TVoid) : f \in {FunctionType(<<t>>, r) : t, r \in {TInt, TFloat}}}
    \cup {FunctionType(<<>>, FunctionType(<<>>, r)) : r \in {TInt, TFloat}}

TypeUniverse == Prims \cup FirstOrder \cup HigherOrder

\* the symbol a name of the type t stands for: a function for a function
\* type, a variable otherwise
SymbolOf(n, t) ==
    IF t.tag = "Function" THEN FuncSymbol(n, t.parameters, t.return_type[1])
    ELSE VarSymbol(n, t)

\* the analyzer after define_builtins, with the symbols defined in its scope
AnalyzerWith(symbols, function_return_type) ==
    LET b == define_builtins(SemanticAnalyzerNew).analyzer IN
    [current_scope |-> define_all(b.current_scope, symbols, 1).scope,
     function_return_type |-> function_return_type]

TypeLocation == [line |-> 1, column |-> 1]

TypeInit ==
    /\ PipelineInit
    /\ lx = NoSource /\ prs = NoParse /\ Idle
    /\ tc \in {[NoTypes EXCEPT !.expected = e, !.actual = a, !.stage = "drawn"] :
                 e \in TypeUniverse, a \in TypeUniverse}

Compare ==
    /\ tc.stage = "drawn"
    /\ tc' = [tc EXCEPT !.stage = "compared",
                        !.compatible = types_compatible(tc.expected, tc.actual)]
    /\ UNCHANGED <<pipeline_vars, lx, prs, mach, frm>>

\* var w: expected = v;
DeclareTyped ==
    /\ tc.stage = "compared"
    /\ tc' = [tc EXCEPT !.stage = "declared",
                 !.declaration =
                    analyze_declaration(
                        AnalyzerWith(<<SymbolOf("v", tc.actual)>>, <<>>),
                        Stmt("Declaration", "w", tc.expected, <<Ident("v")>>, <<>>, <<>>, TVoid),
                        TypeLocation).result]
    /\ UNCHANGED <<pipeline_vars, lx, prs, mach, frm>>

\* t = v;
AssignTyped ==
    /\ tc.stage = "declared"
    /\ tc' = [tc EXCEPT !.stage = "assigned",
                 !.assignment =
                    [analyze_expression(
                        AnalyzerWith(<<SymbolOf("v", tc.actual), SymbolOf("t", tc.expected)>>,
                                     <<>>).current_scope,
                        Assign("t", Ident("v")), TypeLocation) EXCEPT !.type = <<>>]]
    /\ UNCHANGED <<pipeline_vars, lx, prs, mach, frm>>

\* c(v); with c declared as func c(p: expected)
CallTyped ==
    /\ tc.stage = "assigned"
    /\ tc' = [tc EXCEPT !.stage = "called",
                 !.argument =
                    [analyze_expression(
                        AnalyzerWith(<<SymbolOf("v", tc.actual),
                                       FuncSymbol("c", <<tc.expected>>, TVoid)>>,
                                     <<>>).current_scope,
                        Call("c", <<Ident("v")>>), TypeLocation) EXCEPT !.type = <<>>]]
    /\ UNCHANGED <<pipeline_vars, lx, prs, mach, frm>>

\* return v; in a function declared to return expected
ReturnTyped ==
    /\ tc.stage = "called"
    /\ tc' = [tc EXCEPT !.stage = "returned",
                 !.returned =
                    analyze_return_statement(
                        AnalyzerWith(<<SymbolOf("v", tc.actual)>>, <<tc.expected>>),
                        <<Ident("v")>>, TypeLocation).result]
    /\ UNCHANGED <<pipeline_vars, lx, prs, mach, frm>>

TypeNext ==
    \/ Compare
    \/ DeclareTyped
    \/ AssignTyped
    \/ CallTyped
    \/ ReturnTyped

TypeSpec == TypeInit /\ [][TypeNext]_vars

(***************************************************************************)
(* analyze_binary_expression on its own: a pair of operand types is drawn  *)
(* and an operator is applied to two identifiers of these types, l of the  *)
(* type `expected` on the left and r of the type `actual` on the right.    *)
(***************************************************************************)
BinaryOperators == {"+", "-", "*", "/", "%", "==", "!=", "<", "<=", ">", ">=", "&&", "||"}

BinaryInit ==
    /\ PipelineInit
    /\ lx = NoSource /\ prs = NoParse /\ Idle
    /\ tc \in {[NoTypes EXCEPT !.expected = l, !.actual = r, !.stage = "operands"] :
                 l \in TypeUniverse, r \in TypeUniverse}

\* l op r;
BinaryTyped ==
    /\ tc.stage = "operands"
    /\ \E op \in BinaryOperators :
          tc' = [tc EXCEPT !.stage = "typed", !.operator = op,
                   !.binary =
                      analyze_expression(
                          AnalyzerWith(<<SymbolOf("l", tc.expected), SymbolOf("r", tc.actual)>>,
                                       <<>>).current_scope,
                          Binary(op, Ident("l"), Ident("r")), TypeLocation)]
    /\ UNCHANGED <<pipeline_vars, lx, prs, mach, frm>>

BinaryNext == BinaryTyped

BinarySpec == BinaryInit /\ [][BinaryNext]_vars

(***************************************************************************)
(* Lexer::tokenize on its own: every source of at most MaxSource bytes    *)
(* over SourceBytes is tokenized.  "&" alone is no token, "//" begins a    *)
(* comment and the newline makes lines.                                    *)
(***************************************************************************)
MaxSource == 4

SourceBytes == {"a", "1", "=", "/", "&", " ", "\n"}

LexInit ==
    /\ PipelineInit
    /\ tc = NoTypes /\ prs = NoParse /\ Idle
    /\ lx \in {[NoSource EXCEPT !.stage = "source", !.source = s] :
                 s \in SeqsUpTo(SourceBytes, MaxSource)}

\* lib.rs, compile: Lexer::new(source).tokenize()
Tokenize ==
    /\ lx.stage = "source"
    /\ \E t \in {tokenize(lx.source)} :
          lx' = [lx EXCEPT !.stage = "tokens", !.result = t.result, !.tokens = t.tokens]
    /\ UNCHANGED <<pipeline_vars, tc, prs, mach, frm>>

LexNext == Tokenize

LexSpec == LexInit /\ [][LexNext]_vars

(***************************************************************************)
(* Lexer and Parser as compile chains them.  A source is written as its    *)
(* words, joined by one separator byte.  The sources are the expression    *)
(* statements of at most MaxOperands operands joined by binary operators   *)
(* and "=", plain, with one unary operator or with one parenthesised pair  *)
(* of neighbours (Chains), and the declarations, calls, assignments and    *)
(* truncated inputs of Shapes.                                             *)
(***************************************************************************)
MaxOperands == 3

Bytes(word) ==
    CASE word = "var" -> <<"v", "a", "r">>
      [] word = "int" -> <<"i", "n", "t">>
      [] word = "true" -> <<"t", "r", "u", "e">>
      [] word = "if" -> <<"i", "f">>
      [] word = "else" -> <<"e", "l", "s", "e">>
      [] word = "while" -> <<"w", "h", "i", "l", "e">>
      [] word = "return" -> <<"r", "e", "t", "u", "r", "n">>
      [] word = "func" -> <<"f", "u", "n", "c">>
      [] word = "->" -> <<"-", ">">>
      [] word = "==" -> <<"=", "=">>
      [] word = "!=" -> <<"!", "=">>
      [] word = "<=" -> <<"<", "=">>
      [] word = ">=" -> <<">", "=">>
      [] word = "&&" -> <<"&", "&">>
      [] word = "||" -> <<"|", "|">>
      [] OTHER -> <<word>>

RECURSIVE Spell(_, _)
Spell(words, separator) ==
    IF words = <<>> THEN <<>>
    ELSE IF Len(words) = 1 THEN Bytes(words[1])
    ELSE Bytes(words[1]) \o <<separator>> \o Spell(Tail(words), separator)

OperandNames == <<"a", "b", "c", "d", "e">>

ChainOperators == BinaryOperators \cup {"="}

ChainVariants(n) ==
    {<<"plain", 0, "">>}
        \cup {<<"unary", u, o>> : u \in 1..n, o \in {"-", "!"}}
        \cup {<<"group", g, "">> : g \in 1..(n - 1)}

RECURSIVE ChainWords(_, _, _, _)
ChainWords(n, operators, variant, i) ==
    IF i > n THEN <<";">>
    ELSE (IF variant[1] = "unary" /\ variant[2] = i THEN <<variant[3]>> ELSE <<>>)
           \o (IF variant[1] = "group" /\ variant[2] = i THEN <<"(">> ELSE <<>>)
           \o <<OperandNames[i]>>
           \o (IF variant[1] = "group" /\ variant[2] = i - 1 THEN <<")">> ELSE <<>>)
           \o (IF i < n THEN <<operators[i]>> ELSE <<>>)
           \o ChainWords(n, operators, variant, i + 1)

Chains ==
    UNION {{ChainWords(n, operators, variant, 1) :
              operators \in [1..(n - 1) -> ChainOperators], variant \in ChainVariants(n)} :
           n \in 1..MaxOperands}

ShapePrefixes ==
    {<<>>, <<"var", "x", ":", "int", "=">>, <<"var", "x", "=">>, <<"var">>, <<"var", "x">>,
     <<"var", "x", ":">>, <<"var", "1">>, <<"var", "x", ":", "x">>}

ShapeBodies ==
    {<<>>, <<"1">>, <<"a">>, <<"true">>, <<"1", "+">>, <<"(", "1">>, <<")">>,
     <<"f", "(", ")">>, <<"f", "(", "1", ")">>, <<"f", "(", "1", ",", "a", ")">>,
     <<"f", "(", "1", ")", "(", "2", ")">>, <<"3", "(", "1", ")">>,
     <<"(", "a", ")", "(", "1", ")">>, <<"(", "a", "+", "b", ")", "(", "1", ")">>,
     <<"f", "(", "a", ")", "(", "1", ")">>,
     <<"f", "(", "a", "=", "1", ")">>, <<"f", "(", "1", "=", "a", ")">>,
     <<"a", "=", "1">>, <<"1", "=", "2">>, <<"(", "a", ")", "=", "1">>,
     <<"a", "+", "b", "=", "1">>, <<"-", "a", "=", "1">>, <<"f", "(", "1", ")", "=", "1">>,
     <<"a", "=", "b", "=", "1">>, <<"a", "=", "1", "=", "2">>}

ShapeEnds == {<<";">>, <<>>, <<";", "a", ";">>}

Shapes == {p \o b \o e : p \in ShapePrefixes, b \in ShapeBodies, e \in ShapeEnds}

ParseSources ==
    {Spell(words, " ") : words \in Chains \cup Shapes}
        \cup {Spell(words, "\n") : words \in Shapes}

ParseInit ==
    /\ PipelineInit
    /\ tc = NoTypes /\ prs = NoParse /\ Idle
    /\ lx \in {[NoSource EXCEPT !.stage = "source", !.source = s] : s \in ParseSources}

\* lib.rs, compile: Parser::new(tokens).parse()
Parse ==
    /\ lx.stage = "tokens" /\ lx.result.kind = "Ok"
    /\ prs.stage = "none"
    /\ \E r \in {parse(lx.tokens)} :
          prs' = [stage |-> "parsed", result |-> r.result, program |-> r.program,
                  current |-> r.parser.current, floor |-> r.parser.floor]
    /\ UNCHANGED <<pipeline_vars, tc, lx, mach, frm>>

ParseNext == Tokenize \/ Parse

ParseSpec == ParseInit /\ [][ParseNext]_vars

(***************************************************************************)
(* The same chain on sources with functions, blocks, if, while and return: *)
(* the programs of Programs, every prefix of one, and every one with one   *)
(* of its words replaced by a stray word.                                  *)
(***************************************************************************)
Programs ==
    {<<"func", "f", "(", "a", ":", "int", ",", "b", ":", "int", ")", "->", "int", "{",
       "return", "a", "+", "b", "*", "2", ";", "}">>,
     <<"func", "f", "(", ")", "{", "var", "x", "=", "f", "(", "1", ",", "x", ")", ";", "}">>,
     <<"if", "(", "a", "<", "1", ")", "{", "b", "=", "1", ";", "}", "else", "c", ";">>,
     <<"if", "(", "a", ")", "if", "(", "b", ")", "c", ";", "else", "{", "}">>,
     <<"while", "(", "a", "<", "1", ")", "{", "a", "=", "a", "+", "1", ";", "}">>,
     <<"while", "(", "a", ")", "return", ";">>,
     <<"{", "{", "a", ";", "}", "return", "-", "a", ";", "}", "b", ";">>}

Strays == {";", "}", ")", ",", "1", "else", "{"}

StatementWords ==
    UNION {{SubSeq(w, 1, n) : n \in 0..Len(w)}
             \cup {[w EXCEPT ![i] = stray] : i \in 1..Len(w), stray \in Strays} :
           w \in Programs}

StatementSources == {Spell(words, " ") : words \in StatementWords \cup Shapes}

StatementInit ==
    /\ PipelineInit
    /\ tc = NoTypes /\ prs = NoParse /\ Idle
    /\ lx \in {[NoSource EXCEPT !.stage = "source", !.source = s] : s \in StatementSources}

StatementSpec == StatementInit /\ [][ParseNext]_vars

(***************************************************************************)
(* The generated code on the processor.  The program is                    *)
(*     func f(a: int, b: int) -> int { return <callee>; }                  *)
(*     func main() -> int { var x: int = 5; return <expression>; }         *)
(* with the expressions that the analyzer accepts there; its text is run   *)
(* from main, one instruction a step.  from..to are the lines of the code  *)
(* of <expression>, before is rsp when that code is entered.               *)
(***************************************************************************)
Operands == {IntLit(7), IntLit(2), BoolLit(1), BoolLit(0)}

CalleeValues == {Ident("a"), Ident("b"), Binary("-", Ident("a"), Ident("b")), IntLit(3)}

Candidates ==
    {IntLit(7), BoolLit(1), StrLit("a"), Ident("x"), Assign("x", IntLit(7)),
     Call("f", <<IntLit(7), IntLit(2)>>), Call("f", <<Ident("x"), Unary("Minus", IntLit(2))>>),
     Binary("-", Call("f", <<IntLit(7), IntLit(2)>>), Ident("x")),
     Binary("-", Binary("-", IntLit(7), IntLit(2)), IntLit(1)),
     Binary("/", IntLit(7), Binary("-", IntLit(2), IntLit(7))),
     Assign("x", Binary("+", Ident("x"), IntLit(2))),
     Unary("Not", Binary("<", Ident("x"), IntLit(7)))}
    \cup {Binary(op, l, r) : op \in BinaryOperators, l \in Operands, r \in Operands}
    \cup {Unary(op, e) : op \in {"Minus", "Not", "Negate"}, e \in Operands}

MachineScope ==
    AnalyzerWith(<<SymbolOf("x", TInt),
                   SymbolOf("f", FunctionType(<<TInt, TInt>>, TInt))>>, <<>>).current_scope

MachineExprs ==
    {e \in Candidates : analyze_expression(MachineScope, e, TypeLocation).kind = "Ok"}

Callee == Stmt("Function", "f", TVoid, <<>>, <<>>, <<Param("a", TInt), Param("b", TInt)>>, TInt)

Main == Stmt("Function", "main", TVoid, <<>>, <<>>, <<>>, TInt)

\* generate for the two functions of the program
Compiled(callee, value) ==
    LET fe == generate_function_enter(CodeGeneratorNew, Callee)
        fr == generate_return_statement(fe.codegen, <<callee>>)
        fx == generate_function_exit(fr.codegen, fe.saved[1])
        me == generate_function_enter(fx.codegen, Main)
        d == generate_declaration(me.codegen,
                 Stmt("Declaration", "x", TInt, <<IntLit(5)>>, <<>>, <<>>, TVoid))
        e == generate_expression(d.codegen, value)
        mr == generate_return_statement(d.codegen, <<value>>)
        mx == generate_function_exit(mr.codegen, me.saved[1])
        prefix == fe.assembly \o fr.assembly \o fx.assembly \o me.assembly \o d.assembly
    IN  [stage |-> "run", cpu |-> Loaded(prefix \o mr.assembly \o mx.assembly, "main"),
         expression |-> value, callee |-> callee,
         from |-> Len(prefix) + 1, to |-> Len(prefix) + Len(e.assembly), before |-> <<>>]

MachineInit ==
    /\ PipelineInit
    /\ tc = NoTypes /\ lx = NoSource /\ prs = NoParse /\ frm = NoFrame
    /\ mach \in {Compiled(callee, e) : callee \in CalleeValues, e \in MachineExprs}

\* the processor runs the instruction at ip
Run ==
    /\ mach.stage = "run" /\ mach.cpu.status = "running"
    /\ \E m \in Instruction(mach.cpu) :
          mach' = [mach EXCEPT !.cpu = m,
                               !.before = IF mach.cpu.ip = mach.from
                                          THEN <<mach.cpu.rsp>> ELSE @]
    /\ UNCHANGED <<pipeline_vars, tc, lx, prs, frm>>

MachineNext == Run

MachineSpec == MachineInit /\ [][MachineNext]_vars

(***************************************************************************)
(* The locals of one function: generate_function entered for               *)
(*     func f(<parameters>) { var v1: int [= 1]; var v2: int [= 1]; ... }   *)
(* and generate_declaration applied to one declaration after the other.    *)
(***************************************************************************)
MaxDecls == 11

FrameInit ==
    /\ PipelineInit
    /\ tc = NoTypes /\ lx = NoSource /\ prs = NoParse /\ mach = NoMachine
    /\ \E parameters \in ParamLists :
          \E f \in {generate_function_enter(CodeGeneratorNew,
                        Stmt("Function", "f", TVoid, <<>>, <<>>, parameters, TVoid))} :
             frm = [stage |-> "body", codegen |-> f.codegen, declared |-> 0,
                    assembly |-> f.assembly]

\* generate_statement for the next declaration of the body
DeclareLocal ==
    /\ frm.stage = "body" /\ frm.declared < MaxDecls
    /\ \E initializer \in {<<>>, <<IntLit(1)>>} :
          \E d \in {generate_declaration(frm.codegen,
                        Stmt("Declaration", "v" \o ToString(frm.declared + 1), TInt,
                             initializer, <<>>, <<>>, TVoid))} :
             frm' = [frm EXCEPT !.codegen = d.codegen, !.declared = @ + 1,
                                !.assembly = @ \o d.assembly]
    /\ UNCHANGED <<pipeline_vars, tc, lx, prs, mach>>

FrameNext == DeclareLocal

FrameSpec == FrameInit /\ [][FrameNext]_vars

(***************************************************************************)
(* Properties.                                                             *)
(***************************************************************************)
BuiltinNames == {b.name : b \in Builtins}

AllNames ==
    VarNames \cup FuncNames \cup BuiltinNames
    \cup UNION {{ps[i].name : i \in 1..Len(ps)} : ps \in ParamLists}

\* the names declared in the regions the next statement lies in
Visible(n) == BuiltinNames \cup UNION {n[i].declared : i \in 1..Len(n)}

\* the names a scope resolves
ScopeNames(scope) == {n \in AllNames : resolve(scope, n) # <<>>}

\* the step hands a statement of the kind to the analyzer
Draws(kind) == nstmts' = nstmts + 1 /\ last'.stmt = kind

\* the initializer of the declaration is absent, or well typed in the scope
\* and compatible with the declared type
InitializerFits(scope, decl) ==
    \/ decl.initializer = <<>>
    \/ LET init == analyze_expression(scope, decl.initializer[1], Location) IN
       init.kind = "Ok" /\ types_compatible(decl.var_type, init.type[1])

\* C1: a var declaration in a nested scope whose name is declared in an
\* enclosing scope, but not in the immediately enclosing one, is accepted
\* by analyze without error.
C1_ShadowingAccepted ==
    [][(/\ Draws("Declaration")
        /\ Len(nest) > 1
        /\ ~contains_key(analyzer.current_scope.symbols, last'.name)
        /\ resolve(analyzer.current_scope, last'.name) # <<>>
        /\ InitializerFits(analyzer.current_scope, last'))
       => analysis'.kind = "Running"]_vars

\* C2: a var declaration naming a symbol of the immediately enclosing scope
\* fails with a semantic error (not a type error, not success), and the
\* scope keeps its one symbol of that name.
C2_Redeclaration ==
    [][(/\ Draws("Declaration")
        /\ contains_key(analyzer.current_scope.symbols, last'.name))
       => /\ analysis'.kind = "SemanticError"
          /\ pc' = "done"
          /\ analyzer'.current_scope = analyzer.current_scope
          /\ Cardinality({s \in analyzer'.current_scope.symbols : s.name = last'.name}) = 1]_vars

C2_Witness ==
    /\ last.stmt = "Declaration"
    /\ analysis.kind = "SemanticError"
    /\ contains_key(analyzer.current_scope.symbols, last.name)

\* C3: when analyze_block_statement returns, the current scope is again the
\* scope the block was entered in; while analyze has met no error the
\* current scope resolves exactly the names declared in the regions around
\* the next statement; and a reference to a name declared only in a block
\* that has ended fails as undeclared.
C3_BlockScoping ==
    [][/\ (Len(nest') < Len(nest) /\ Top(nest).kind = "block")
          => analyzer'.current_scope = Top(a_stack).old_scope
       /\ (pc' = "walk" => ScopeNames(analyzer'.current_scope) = Visible(nest'))
       /\ (/\ Draws("Expression")
           /\ last'.value[1].kind = "Identifier"
           /\ last'.value[1].name \in Top(nest).ended \ Visible(nest))
          => (analysis'.kind = "SemanticError" /\ analysis'.line # <<>>)]_vars

C3_Witness ==
    /\ last.stmt = "Expression"
    /\ last.value[1].kind = "Identifier"
    /\ last.value[1].name \in Top(nest).ended \ Visible(nest)
    /\ analysis.kind = "SemanticError"

\* C4: for every program on which analyze returns Ok, generate on the same
\* program returns Ok (never a CodeGenError).
C4_AnalyzedProgramsGenerate ==
    (pc = "done" /\ analysis.kind = "Ok") => generation.kind = "Ok"

\* C5: after any sequence of add_string_literal calls on one generator, a
\* literal text that had a label keeps that label, and two different texts
\* never hold the same label.
C5_StringLabels ==
    [][/\ \A old \in codegen.string_literals : \A new \in codegen'.string_literals :
             new.key = old.key => new.value = old.value
       /\ \A e1, e2 \in codegen'.string_literals :
             e1.value = e2.value => e1.key = e2.key]_vars

\* C6: the text generate returns holds exactly one `label: db "text", 0`
\* line for every string literal text of the program.
C6_DataSection ==
    (pc = "done" /\ generation.kind = "Ok")
    => \A e \in codegen.string_literals :
          Cardinality({i \in 1..Len(assembly) :
                          assembly[i] = e.value \o ": db \"" \o e.key \o "\", 0"}) = 1

\* C7: the assembly of an expression statement is the instructions of its
\* expression followed by the pop that discards the value.
C7_ExpressionStatement ==
    [][(/\ Draws("Expression")
        /\ Top(nest).kind \in {"program", "block", "function"}
        /\ analysis'.kind = "Running"
        /\ generation.kind = "Running" /\ generation'.kind = "Running")
       => assembly' = assembly
                      \o generate_expression(codegen, last'.value[1]).assembly
                      \o <<"    pop rax">>]_vars

\* the name a statement assigns to, if it is an assignment in either form
AssignmentTarget(st) ==
    IF st.stmt = "Assignment" THEN <<st.name>>
    ELSE IF st.stmt = "Expression" /\ st.value[1].kind = "Assignment"
    THEN <<st.value[1].name>>
    ELSE <<>>

\* C8: an assignment, in the statement or the expression form, whose target
\* resolves to a function symbol is rejected with a semantic error whatever
\* the assigned value is.
C8_AssignmentToFunction ==
    [][(/\ nstmts' = nstmts + 1
        /\ AssignmentTarget(last') # <<>>
        /\ resolve(analyzer.current_scope, AssignmentTarget(last')[1]) # <<>>
        /\ resolve(analyzer.current_scope, AssignmentTarget(last')[1])[1].is_function)
       => analysis'.kind = "SemanticError"]_vars

\* C9: every error analyze returns is a SemanticError or a TypeError with
\* its line and its column present, and analysis stops with it.
C9_ErrorsCarryLocation ==
    analysis.kind \notin {"Running", "Ok"}
    => /\ analysis.kind \in {"SemanticError", "TypeError"}
       /\ analysis.line # <<>>
       /\ analysis.column # <<>>
       /\ pc = "done"

\* compatibility as the rule states it
RECURSIVE Compatible(_, _)
Compatible(expected, actual) ==
    \/ expected.tag \in {"Int", "Float", "Bool", "String", "Void"} /\ actual = expected
    \/ expected = TFloat /\ actual = TInt
    \/ /\ expected.tag = "Function" /\ actual.tag = "Function"
       /\ Len(expected.parameters) = Len(actual.parameters)
       /\ \A i \in 1..Len(expected.parameters) :
             Compatible(expected.parameters[i], actual.parameters[i])
       /\ Compatible(expected.return_type[1], actual.return_type[1])

Verdict(expected, actual) == IF Compatible(expected, actual) THEN "Ok" ELSE "TypeError"

BinaryTable(op, l, r) ==
    CASE op \in {"+", "-", "*", "/"} ->
            IF l = TInt /\ r = TInt THEN <<TInt>>
            ELSE IF {l, r} \subseteq {TInt, TFloat} THEN <<TFloat>>
            ELSE <<>>
      [] op = "%" -> IF l = TInt /\ r = TInt THEN <<TInt>> ELSE <<>>
      [] op \in {"<", "<=", ">", ">="} ->
            IF {l, r} \subseteq {TInt, TFloat} THEN <<TBool>> ELSE <<>>
      [] op \in {"&&", "||"} -> IF l = TBool /\ r = TBool THEN <<TBool>> ELSE <<>>

\* C11: for every binary operator other than == and != and every pair of
\* operand types, analyze_binary_expression gives the type of the spec
\* table, and a type error where the table has none.
C11_BinaryOperatorTable ==
    (tc.stage = "typed" /\ tc.operator \notin {"==", "!="})
    => LET t == BinaryTable(tc.operator, tc.expected, tc.actual) IN
       IF t = <<>> THEN tc.binary.kind = "TypeError" /\ tc.binary.line # <<>>
       ELSE tc.binary.kind = "Ok" /\ tc.binary.type = t

C11_Witness ==
    /\ tc.stage = "typed"
    /\ tc.operator = "&&" /\ tc.expected = TInt /\ tc.actual = TBool
    /\ tc.binary.kind = "TypeError"

\* the declared return type of the innermost function whose body the next
\* statement lies in, if there is one
RECURSIVE EnclosingReturn(_)
EnclosingReturn(n) ==
    IF n = <<>> THEN <<>>
    ELSE IF Top(n).kind = "function" THEN Top(n).returns
    ELSE EnclosingReturn(Pop(n))

CallVerdict(scope, c) ==
    LET f == resolve(scope, c.name) IN
    IF f = <<>> \/ ~f[1].is_function \/ Len(c.args) # Len(f[1].parameters)
    THEN "SemanticError"
    ELSE IF \E i \in 1..Len(c.args) :
               ~Compatible(f[1].parameters[i],
                           analyze_expression(scope, c.args[i], Location).type[1])
    THEN "TypeError"
    ELSE "Ok"

ArgumentsWellTyped(scope, c) ==
    \A i \in 1..Len(c.args) : analyze_expression(scope, c.args[i], Location).kind = "Ok"

\* C13: a call is accepted iff the callee resolves to a function symbol, the
\* counts of arguments and parameters are equal and each argument's type is
\* compatible with its parameter's; a callee that is unresolved or not a
\* function and a count mismatch are semantic errors, an incompatible
\* argument is a type error, and the call has the function's return type
\* (a declaration initialized with it is accepted iff that type fits).
C13_CallChecking ==
    [][/\ (/\ Draws("Expression")
           /\ last'.value[1].kind = "Call"
           /\ ArgumentsWellTyped(analyzer.current_scope, last'.value[1]))
          => LET v == CallVerdict(analyzer.current_scope, last'.value[1]) IN
             IF v = "Ok" THEN analysis'.kind = "Running"
             ELSE analysis'.kind = v /\ analysis'.line # <<>>
       /\ (/\ Draws("Declaration")
           /\ last'.initializer # <<>>
           /\ last'.initializer[1].kind = "Call"
           /\ resolve(analyzer.current_scope, last'.name) = <<>>
           /\ CallVerdict(analyzer.current_scope, last'.initializer[1]) = "Ok")
          => LET f == resolve(analyzer.current_scope, last'.initializer[1].name)[1] IN
             analysis'.kind = (IF Compatible(last'.var_type, f.return_type[1])
                               THEN "Running" ELSE "TypeError")]_vars

\* a function calls itself in its own body and the call is accepted
C13_Witness ==
    /\ last.stmt = "Expression" /\ last.value[1].kind = "Call"
    /\ analysis.kind = "Running"
    /\ Len(nest) > 1 /\ Top(nest).kind = "function"
    /\ nest[Len(nest) - 1].declared \cap FuncNames = {last.value[1].name}

\* the values main may leave in rax, and the values rdi may hold when the
\* process starts
MainResults == {0, 1, 42}

\* C14: the entry block of the generated text calls main and exits the
\* process with the value main left in rax as the exit status.
C14_EntryBlockExitStatus ==
    (pc = "done" /\ generation.kind = "Ok")
    => \A r \in MainResults, rdi0 \in MainResults :
          ExecuteAll([rax |-> 0, rdi |-> rdi0, status |-> <<>>],
                     EntryBlock(assembly), r).status = <<r>>

\* the lines that define a control-flow label numbered up to n
LabelPrefixes == {"else", "endif", "while", "endwhile"}

LabelsUpTo ==
    [n \in 0..(2 * MaxStmts) |->
        {p \o "_" \o ToString(k) \o ":" : p \in LabelPrefixes, k \in 1..n}]

LabelDefinitions == LabelsUpTo[2 * MaxStmts]

\* the positions of the text where a control-flow label is defined
DefinedAt(text) == {i \in 1..Len(text) : text[i] \in LabelDefinitions}

DefinedLabels(text) == {text[i] : i \in DefinedAt(text)}

\* C15: label_counter only increases, and the control-flow labels defined
\* in the text generated so far are pairwise distinct, none of them
\* numbered beyond label_counter.
C15_LabelUniqueness ==
    [][/\ codegen'.label_counter >= codegen.label_counter
       /\ Cardinality(DefinedLabels(assembly')) = Cardinality(DefinedAt(assembly'))
       /\ DefinedLabels(assembly') \subseteq LabelsUpTo[codegen'.label_counter]]_vars

\* an if and a while, one inside the other, both generated to their end
C15_Witness ==
    /\ generation.kind \in {"Running", "Ok"}
    /\ Cardinality(DefinedLabels(assembly)) >= 4
    /\ \E i, j \in 1..Len(assembly) :
          assembly[i] \in {"endif_" \o ToString(n) \o ":" : n \in 1..(2 * MaxStmts)}
          /\ assembly[j] \in {"endwhile_" \o ToString(n) \o ":" : n \in 1..(2 * MaxStmts)}

\* the token an initializer that is missing leaves the parser at: the ";"
\* right after the "=" of `var x = ;` or `var x: int = ;`
MissingInitializer(tokens) ==
    LET at == IF Len(tokens) >= 4 /\ tokens[3].token = "Assign" THEN 4
              ELSE IF Len(tokens) >= 6 /\ tokens[3].token = "Colon" /\ tokens[4].token = "Int"
                      /\ tokens[5].token = "Assign"
              THEN 6 ELSE 0
    IN  IF at # 0 /\ tokens[1].token = "Var" /\ tokens[2].token = "Identifier"
           /\ tokens[at].token = "Semicolon"
        THEN <<tokens[at]>> ELSE <<>>

\* C16: every SyntaxError of Parser::parse carries a line and a column that
\* are both at least 1 and are those of a token of the input, the Eof token
\* at the end of the input included; for a declaration whose initializer is
\* missing (`var x: int = ;`) they are those of the ";".
C16_SyntaxErrorLocation ==
    (prs.stage = "parsed" /\ prs.result.kind = "SyntaxError")
    => /\ prs.result.line[1] >= 1 /\ prs.result.column[1] >= 1
       /\ \E i \in 1..Len(lx.tokens) :
             /\ lx.tokens[i].location.line = prs.result.line[1]
             /\ lx.tokens[i].location.column = prs.result.column[1]
       /\ \A t \in {MissingInitializer(lx.tokens)} \ {<<>>} :
             /\ t[1].location.line = prs.result.line[1]
             /\ t[1].location.column = prs.result.column[1]

\* The reference tree of an expression, read off its tokens t[lo..hi] by
\* splitting at the operator that binds loosest: "=" is loosest and groups
\* to the right, then ||, &&, == !=, < <= > >=, + -, * / % group to the
\* left, and a unary operator binds tighter than any of them.
Precedence(token) ==
    CASE token = "Or" -> 1
      [] token = "And" -> 2
      [] token \in {"Equal", "NotEqual"} -> 3
      [] token \in {"LessThan", "LessThanEqual", "GreaterThan", "GreaterThanEqual"} -> 4
      [] token \in {"Plus", "Minus"} -> 5
      [] token \in {"Star", "Slash", "Percent"} -> 6

OperatorOf(token) ==
    CASE token = "Or" -> "||" [] token = "And" -> "&&" [] token = "Equal" -> "=="
      [] token = "NotEqual" -> "!=" [] token = "LessThan" -> "<"
      [] token = "LessThanEqual" -> "<=" [] token = "GreaterThan" -> ">"
      [] token = "GreaterThanEqual" -> ">=" [] token = "Plus" -> "+"
      [] token = "Minus" -> "-" [] token = "Star" -> "*" [] token = "Slash" -> "/"
      [] token = "Percent" -> "%"

BinaryTokens ==
    {"Or", "And", "Equal", "NotEqual", "LessThan", "LessThanEqual", "GreaterThan",
     "GreaterThanEqual", "Plus", "Minus", "Star", "Slash", "Percent"}

OperandEnds == {"Identifier", "Integer", "Boolean", "RightParen"}

Count(t, lo, hi, token) == Cardinality({i \in lo..hi : t[i].token = token})

\* the parentheses open at t[i], counted from lo
Depth(t, lo, i) == Count(t, lo, i - 1, "LeftParen") - Count(t, lo, i - 1, "RightParen")

\* the tokens of the kinds that stand between two operands outside every
\* parenthesis of t[lo..hi]
Splits(t, lo, hi, kinds) ==
    {i \in (lo + 1)..hi : /\ t[i].token \in kinds
                          /\ Depth(t, lo, i) = 0
                          /\ t[i - 1].token \in OperandEnds}

Least(S) == CHOOSE x \in S : \A y \in S : x <= y

Greatest(S) == CHOOSE x \in S : \A y \in S : x >= y

\* the "(" that the ")" at hi closes, 0 if there is none
MatchingOpen(t, lo, hi) ==
    LET opens == {j \in lo..(hi - 1) : /\ t[j].token = "LeftParen"
                                       /\ Depth(t, j + 1, hi) = 0}
    IN  IF opens = {} THEN 0 ELSE Greatest(opens)

RECURSIVE Reference(_, _, _)
RECURSIVE ReferenceArguments(_, _, _)

ReferenceArguments(t, lo, hi) ==
    IF lo > hi THEN <<>>
    ELSE LET commas == {i \in lo..hi : t[i].token = "Comma" /\ Depth(t, lo, i) = 0} IN
         IF commas = {} THEN <<Reference(t, lo, hi)>>
         ELSE <<Reference(t, lo, Least(commas) - 1)>>
                \o ReferenceArguments(t, Least(commas) + 1, hi)

Reference(t, lo, hi) ==
    LET assigns == Splits(t, lo, hi, {"Assign"})
        binaries == Splits(t, lo, hi, BinaryTokens)
    IN  IF assigns # {}
        THEN LET i == Least(assigns) IN
             Assign(Reference(t, lo, i - 1).name, Reference(t, i + 1, hi))
        ELSE IF binaries # {}
        THEN LET loosest == Least({Precedence(t[i].token) : i \in binaries})
                 i == Greatest({k \in binaries : Precedence(t[k].token) = loosest})
             IN  Binary(OperatorOf(t[i].token), Reference(t, lo, i - 1),
                        Reference(t, i + 1, hi))
        ELSE IF t[lo].token \in {"Not", "Minus"}
        THEN Unary(IF t[lo].token = "Not" THEN "Not" ELSE "Minus", Reference(t, lo + 1, hi))
        ELSE IF t[hi].token = "RightParen"
        THEN LET j == MatchingOpen(t, lo, hi) IN
             IF j = lo THEN Reference(t, lo + 1, hi - 1)
             ELSE Call(Reference(t, lo, j - 1).name, ReferenceArguments(t, j + 1, hi - 1))
        ELSE CASE t[lo].token = "Integer" -> IntLit(t[lo].val)
               [] t[lo].token = "Boolean" -> BoolLit(t[lo].val = 1)
               [] t[lo].token = "Identifier" -> Ident(t[lo].name)

\* the positions of the ";" that end the statements of t
Semicolons(t) == {i \in 1..Len(t) : t[i].token = "Semicolon"}

\* the k-th statement of t: its first token and its ";"
StatementSpan(t, k) ==
    LET ends == {i \in Semicolons(t) : Cardinality({j \in Semicolons(t) : j <= i}) = k}
        end == Least(ends)
        before == {j \in Semicolons(t) : j < end}
    IN  [lo |-> IF before = {} THEN 1 ELSE Greatest(before) + 1, hi |-> end]

\* the reference tree of the expression of the k-th statement: the
\* initializer of a declaration (none if it has none), the expression of an
\* expression statement
ReferenceOfStatement(t, k) ==
    LET span == StatementSpan(t, k) IN
    IF t[span.lo].token = "Var"
    THEN LET assigns == {i \in span.lo..span.hi : t[i].token = "Assign"} IN
         IF assigns = {} THEN <<>> ELSE <<Reference(t, Least(assigns) + 1, span.hi - 1)>>
    ELSE <<Reference(t, span.lo, span.hi - 1)>>

ExpressionOfStatement(st) == IF st.stmt = "Declaration" THEN st.initializer ELSE st.value

\* C17: the tree parse builds for each expression is the reference tree of
\* its tokens: unary binds tightest, then * / %, + -, < <= > >=, == !=, &&,
\* ||, then assignment; the binary levels group to the left and assignment
\* groups to the right.
C17_PrecedenceTree ==
    (prs.stage = "parsed" /\ prs.result.kind = "Ok")
    => /\ Len(prs.program) = Cardinality(Semicolons(lx.tokens))
       /\ \A k \in 1..Len(prs.program) :
             ExpressionOfStatement(prs.program[k]) = ReferenceOfStatement(lx.tokens, k)

\* `a - b - c;` has been parsed, as (a - b) - c
C17_Witness ==
    /\ prs.stage = "parsed"
    /\ prs.result.kind = "Ok"
    /\ Len(prs.program) = 1
    /\ prs.program[1].value
          = <<Binary("-", Binary("-", Ident("a"), Ident("b")), Ident("c"))>>

\* t[s..e] is an identifier, in any number of parentheses
IsIdentifierSpan(t, s, e) ==
    /\ 1 <= s /\ s <= e /\ (e - s) % 2 = 0
    /\ LET k == (e - s) \div 2 IN
       /\ t[s + k].token = "Identifier"
       /\ \A j \in 0..(k - 1) : t[s + j].token = "LeftParen" /\ t[e - j].token = "RightParen"

\* the first token of the expression that ends right before t[i]: the one
\* after the nearest "=", "," or ";" outside the parentheses closed before
\* t[i], or after the parenthesis still open there
ExpressionStart(t, i) ==
    LET bounds == {j \in 1..(i - 1) :
                      /\ t[j].token \in {"Assign", "Comma", "Semicolon", "LeftParen"}
                      /\ Depth(t, j + 1, i) = 0}
    IN  IF bounds = {} THEN 1 ELSE Greatest(bounds) + 1

\* an "=" of an assignment (not the one of a declaration) whose left-hand
\* side is not an identifier
NonIdentifierTarget(t) ==
    \E i \in 1..Len(t) :
       /\ t[i].token = "Assign"
       /\ LET s == ExpressionStart(t, i) IN
          t[s].token # "Var" /\ ~IsIdentifierSpan(t, s, i - 1)

\* a "(" of a call whose callee is not an identifier: a literal, a call or
\* a parenthesised expression other than an identifier
NonIdentifierCallee(t) ==
    \E i \in 2..Len(t) :
       /\ t[i].token = "LeftParen"
       /\ \/ t[i - 1].token \in {"Integer", "Boolean"}
          \/ /\ t[i - 1].token = "RightParen"
             /\ LET j == MatchingOpen(t, 1, i - 1) IN
                \/ j = 0
                \/ ~IsIdentifierSpan(t, j, i - 1)
                \/ (j > 1 /\ t[j - 1].token \in OperandEnds)

\* C18: parse returns a syntax error, and no program, for every input with
\* an assignment whose left-hand side is not an identifier or a call whose
\* callee is not an identifier (`f(1)(2)`, `3(1)`, `1 = 2`).
C18_TargetsAndCalleesAreIdentifiers ==
    (prs.stage = "parsed"
        /\ (NonIdentifierTarget(lx.tokens) \/ NonIdentifierCallee(lx.tokens)))
    => prs.result.kind = "SyntaxError" /\ prs.program = <<>>

\* `f(1)(2);` has been parsed, and rejected
C18_Witness ==
    /\ prs.stage = "parsed"
    /\ prs.result.kind = "SyntaxError"
    /\ NonIdentifierCallee(lx.tokens)
    /\ ~NonIdentifierTarget(lx.tokens)
    /\ Len(lx.tokens) = 9
    /\ lx.tokens[1].token = "Identifier"
    /\ lx.tokens[5].token = "LeftParen"

Newlines(source) == {k \in 1..Len(source) : source[k] = "\n"}

\* the byte offset at which a line begins: 0 for line 1, else right after
\* the newline that ends the line before
LineStart(source, line) ==
    IF line = 1 THEN 0
    ELSE CHOOSE k \in Newlines(source) :
            Cardinality({j \in Newlines(source) : j <= k}) = line - 1

\* the byte offset a location points at
OffsetOf(source, location) == LineStart(source, location.line) + location.column - 1

\* the bytes of the source from the offset from up to the offset to
Between(source, from, to) == SubSeq(source, from + 1, to)

\* C20: the location of every token of tokenize, the final Eof included,
\* is 1-based and points at the token: its line is 1 + the newlines before
\* the token's first byte, its column 1 + the bytes between the last newline
\* before it (or the start of the source) and that byte, and the `length`
\* bytes found at (line, column) are the token: they lex as that one token,
\* and what lies between two tokens is blank or comment.
C20_LocationRoundTrip ==
    (lx.stage = "tokens" /\ lx.result.kind = "Ok")
    => \A i \in 1..Len(lx.tokens) :
          LET token == lx.tokens[i]
              at == token.location
              offset == OffsetOf(lx.source, at)
              from == IF i = 1 THEN 0
                      ELSE OffsetOf(lx.source, lx.tokens[i - 1].location)
                             + lx.tokens[i - 1].location.length
              again == tokenize(Between(lx.source, offset, offset + at.length))
          IN  /\ at.line >= 1 /\ at.column >= 1
              /\ at.line <= Cardinality(Newlines(lx.source)) + 1
              /\ from <= offset /\ offset + at.length <= Len(lx.source)
              /\ at.line = 1 + Cardinality({k \in Newlines(lx.source) : k <= offset})
              /\ \A k \in Newlines(lx.source) :
                    k <= offset => offset - k = at.column - 1 \/ k <= offset - at.column
              /\ Len(tokenize(Between(lx.source, from, offset)).tokens) = 1
              /\ IF token.token = "Eof"
                 THEN i = Len(lx.tokens) /\ at.length = 0 /\ offset = Len(lx.source)
                 ELSE /\ i < Len(lx.tokens) /\ at.length >= 1
                      /\ again.tokens
                            = <<[token EXCEPT !.location = [line |-> 1, column |-> 1,
                                                            length |-> at.length]],
                                TokenInfo(Token("Eof", "", 0), 1, at.length + 1, 0)>>

\* a two-byte token that begins at the second byte of the second line
C20_Witness ==
    /\ lx.stage = "tokens"
    /\ lx.result.kind = "Ok"
    /\ \E i \in 1..Len(lx.tokens) :
          lx.tokens[i].location = [line |-> 2, column |-> 2, length |-> 2]

\* the frames of the active function declarations, outermost first
FunctionFrames == {i \in 1..Len(a_stack) : a_stack[i].kind = "function"}

\* C21: when analyze returns an error raised inside a nested block or
\* function body, the analyzer's current scope and its function return type
\* are those it had before the outermost such scope was entered, as they
\* are when the scope is left normally.
C21_RestorationOnError ==
    (pc = "done" /\ analysis.kind \notin {"Ok", "Running"} /\ a_stack # <<>>)
    => /\ analyzer.current_scope = a_stack[1].old_scope
       /\ FunctionFrames # {}
             => analyzer.function_return_type
                   = a_stack[Least(FunctionFrames)].old_return_type

\* C27: `l == r` (and `l != r`) is accepted exactly when `r == l` is, for
\* operands l and r of any two types.
C27_EqualitySymmetric ==
    (tc.stage = "typed" /\ tc.operator \in {"==", "!="})
    => LET swapped ==
              analyze_expression(
                  AnalyzerWith(<<SymbolOf("l", tc.expected), SymbolOf("r", tc.actual)>>,
                               <<>>).current_scope,
                  Binary(tc.operator, Ident("r"), Ident("l")), TypeLocation)
       IN  (tc.binary.kind = "Ok") <=> (swapped.kind = "Ok")

\* the entries of local_variables whose names the analyzer resolves to a
\* variable at this point: the parameters and the locals that are in scope
LiveSlots ==
    {e \in codegen.local_variables :
        /\ resolve(analyzer.current_scope, e.key) # <<>>
        /\ ~resolve(analyzer.current_scope, e.key)[1].is_function}

\* C24: inside a function, the parameters and the declared locals that are
\* visible at the same time have pairwise distinct frame offsets.
C24_DistinctOffsets ==
    (pc = "walk" /\ generation.kind = "Running" /\ codegen.current_function # <<>>)
    => \A e1, e2 \in LiveSlots : e1.key # e2.key => e1.value # e2.value

\* the positions of a line in a text
At(text, line) == {i \in 1..Len(text) : text[i] = line}

\* the numbers a label may carry
LabelNumbers == 1..(2 * MaxStmts)

\* the lines that define a label of a prefix or jump to one, by number
LabelLine ==
    [p \in LabelPrefixes |-> [k \in LabelNumbers |-> p \o "_" \o ToString(k) \o ":"]]

JumpLine ==
    [j \in {"je", "jmp"} |->
        [p \in LabelPrefixes |->
            [k \in LabelNumbers |-> "    " \o j \o " " \o p \o "_" \o ToString(k)]]]

JumpLines == {JumpLine[j][p][k] : j \in {"je", "jmp"}, p \in LabelPrefixes, k \in LabelNumbers}

\* the one position of a line that occurs exactly once, 0 otherwise
Once(text, line) == IF Cardinality(At(text, line)) = 1 THEN Least(At(text, line)) ELSE 0

\* the if that uses the labels else_k and endif_m: the condition's value is
\* popped and compared with zero, je else_k, then branch, jmp endif_m,
\* else_k:, else branch, endif_m:
IfShape(text, k, m) ==
    LET je == Once(text, JumpLine["je"]["else"][k])
        jmp == Once(text, JumpLine["jmp"]["endif"][m])
        else == Once(text, LabelLine["else"][k])
        end == Once(text, LabelLine["endif"][m])
    IN  /\ je > 2 /\ text[je - 1] = "    cmp rax, 0" /\ text[je - 2] = "    pop rax"
        /\ je < jmp /\ else = jmp + 1 /\ else < end
        /\ At(text, JumpLine["jmp"]["else"][k]) = {}
        /\ At(text, JumpLine["je"]["endif"][m]) = {}

\* the while that uses the labels while_k and endwhile_m: while_k:, the
\* condition's code with no label or jump in it, its value popped and
\* compared with zero, je endwhile_m, body, jmp while_k, endwhile_m:
WhileShape(text, k, m) ==
    LET top == Once(text, LabelLine["while"][k])
        je == Once(text, JumpLine["je"]["endwhile"][m])
        jmp == Once(text, JumpLine["jmp"]["while"][k])
        end == Once(text, LabelLine["endwhile"][m])
    IN  /\ top > 0 /\ top < je - 2
        /\ text[je - 1] = "    cmp rax, 0" /\ text[je - 2] = "    pop rax"
        /\ \A i \in (top + 1)..(je - 1) : text[i] \notin JumpLines \cup LabelDefinitions
        /\ je < jmp /\ end = jmp + 1
        /\ At(text, JumpLine["je"]["while"][k]) = {}
        /\ At(text, JumpLine["jmp"]["endwhile"][m]) = {}

\* C26: in a generated program every control-flow label and every jump
\* belongs to one if or one while of the shape above: the labels of a
\* construct are numbered k and k + 1, each is defined exactly once and
\* each jump of the construct targets one of the two.
C26_ControlFlowShape ==
    (pc = "done" /\ generation.kind = "Ok")
    => \A k \in LabelNumbers :
          /\ \A p \in {"else", "endif"} :
                (At(assembly, LabelLine[p][k]) # {} \/ At(assembly, JumpLine["je"][p][k]) # {}
                    \/ At(assembly, JumpLine["jmp"][p][k]) # {})
                => IF p = "else" THEN k + 1 \in LabelNumbers /\ IfShape(assembly, k, k + 1)
                   ELSE k > 1 /\ IfShape(assembly, k - 1, k)
          /\ \A p \in {"while", "endwhile"} :
                (At(assembly, LabelLine[p][k]) # {} \/ At(assembly, JumpLine["je"][p][k]) # {}
                    \/ At(assembly, JumpLine["jmp"][p][k]) # {})
                => IF p = "while"
                   THEN k + 1 \in LabelNumbers /\ WhileShape(assembly, k, k + 1)
                   ELSE k > 1 /\ WhileShape(assembly, k - 1, k)

\* a program with a while and an if has been generated
C26_Witness ==
    /\ pc = "done"
    /\ generation.kind = "Ok"
    /\ \E k, m \in LabelNumbers :
          /\ At(assembly, JumpLine["jmp"]["while"][k]) # {}
          /\ At(assembly, JumpLine["je"]["else"][m]) # {}

\* the code of the expression of main has been run
Evaluated == mach.stage = "run" /\ mach.cpu.status = "running" /\ mach.cpu.ip = mach.to + 1

NonCommutative == {"-", "/", "%", "<", "<=", ">", ">="}

\* the processor is at the operation of the binary expression of main,
\* its operands loaded
AtOperation ==
    /\ mach.stage = "run" /\ mach.cpu.status = "running"
    /\ mach.expression.kind = "Binary"
    /\ mach.cpu.ip = mach.to - Len(BinaryInstructions(mach.expression.tag))

\* C22: at the operation of `l OP r` with literal operands and a
\* non-commutative OP, rax (the operation's left operand: sub rax, rbx
\* subtracts rbx from rax, cmp rax, rbx with setl tests rax < rbx, idiv rbx
\* divides rax by rbx) holds l and rbx holds r.
C22_OperandOrder ==
    (/\ AtOperation
     /\ mach.expression.tag \in NonCommutative
     /\ \A i \in 1..2 : mach.expression.args[i].kind = "Literal")
    => /\ mach.cpu.rax = mach.expression.args[1].val
       /\ mach.cpu.rbx = mach.expression.args[2].val

\* the processor has run the prologue of f, called with literal arguments
InCallee ==
    /\ mach.stage = "run" /\ mach.cpu.status = "running"
    /\ mach.expression.kind = "Call"
    /\ \A i \in 1..Len(mach.expression.args) : mach.expression.args[i].kind = "Literal"
    /\ mach.cpu.ip = Len(generate_function_enter(CodeGeneratorNew, Callee).assembly) + 1

\* the values that the slot of the i-th parameter of f may hold
ParameterSlot(i) ==
    LET offsets == generate_function_enter(CodeGeneratorNew, Callee).codegen.local_variables
    IN  Rd(mach.cpu, mach.cpu.rbp + get(offsets, Callee.parameters[i].name)[1])

\* C23: in the body of the callee the slot of its i-th parameter holds the
\* caller's i-th argument.
C23_ArgumentPassing ==
    InCallee
    => \A i \in 1..Len(Callee.parameters) :
          ParameterSlot(i) = {mach.expression.args[i].val}

\* C28: every offset that names a local of the function lies in the area
\* that the prologue reserves: it is at least -8 * LocalSlots.
C28_FrameCapacity ==
    frm.stage = "body"
    => \A e \in frm.codegen.local_variables : e.value >= -(8 * LocalSlots)

\* C29: when parse returns, previous() was evaluated only at current >= 1
\* and current, which only ever grows, is at most the index of the Eof
\* token, the last token.
C29_CursorSafety ==
    prs.stage = "parsed"
    => /\ prs.floor >= 1
       /\ 0 <= prs.current /\ prs.current <= Len(lx.tokens) - 1
       /\ lx.tokens[Len(lx.tokens)].token = "Eof"
       /\ \A i \in 1..(Len(lx.tokens) - 1) : lx.tokens[i].token # "Eof"

\* a function with parameters and a body has been parsed up to the Eof token
C29_Witness ==
    /\ prs.stage = "parsed" /\ prs.result.kind = "Ok"
    /\ prs.current = Len(lx.tokens) - 1
    /\ prs.floor = 1
    /\ \E i \in 1..Len(prs.program) :
          prs.program[i].stmt = "Function" /\ Len(prs.program[i].parameters) = 2

\* C30: no loop of the parser has an iteration that returns Ok without
\* consuming a token: parse returns Ok or a syntax error.
C30_Termination ==
    prs.stage = "parsed" => prs.result.kind \in {"Ok", "SyntaxError"}

\* a function whose parse went through the top-level loop, the block loop
\* and the argument loop has been parsed
C30_Witness ==
    /\ prs.stage = "parsed" /\ prs.result.kind = "Ok"
    /\ Len(prs.program) = 1
    /\ prs.program[1].stmt = "Function"
    /\ prs.program[1].body[1].body # <<>>
    /\ prs.program[1].body[1].body[1].stmt = "Declaration"
    /\ prs.program[1].body[1].body[1].initializer[1].kind = "Call"
    /\ Len(prs.program[1].body[1].body[1].initializer[1].args) = 2

=============================================================================
